---- MODULE Spec2Model ----
(***************************************************************************)
(* Item resolution and classification pipeline of the session viewer:      *)
(*   - the session-cache builders (bulk script and POST precompute-items), *)
(*   - the GET precomputed-items read path,                                *)
(*   - the session page's runtime item cache (seed, fetchItem, batch       *)
(*     resolution effect).                                                 *)
(***************************************************************************)
EXTENDS Integers, Sequences, FiniteSets, Bags, TLC

VARIABLES
  \* ---- file system (server side)
  itemsStore,        \* coregamedata/items : [exists, dirs]
  spellsStore,       \* coregamedata/spells: [exists, dirs]
  inventoryFile,     \* session -> character_inventories.json : [exists, ok, chars]
  artifact,          \* session -> precomputed_items.json : [exists, intact, obj]
  \* ---- bulk script (main)
  scriptPc,          \* "idle" | "loop"
  allItemData,       \* catalog loaded by main (line 147)
  sessionDirs,       \* sessions still to be processed by the loop of main
  results,           \* results array of main (line 159)
  \* ---- POST route
  response,          \* last response of the POST precompute-items route
  \* ---- locals of the build handler that returned last
  lastOp,            \* [op, session, success, wrote, allItems, missingItems]
  \* ---- what the builds left and what a concurrent reader saw
  built,             \* session -> report of its last build, if it succeeded
  reader,            \* the responses a GET precomputed-items of the session
                     \* can get while the last build runs
  \* ---- GET route
  got,               \* last response of the GET precomputed-items route
  \* ---- session page (client side)
  sessionId,         \* params.id
  sessionData,       \* useState(null), line 306: TRUE when non-null
  loading,           \* useState(true), line 307
  mapReady,          \* useState(false), line 322
  characterInventories, \* useState(null), line 310: [loaded, chars]
  itemCache,         \* useState({}), line 308: JS object name -> record
  loads,             \* fetchAllSessionData calls in flight (a bag)
  runs,              \* fetchAllItemData calls in flight (a bag)
  hovers,            \* hover-triggered lookups in flight (a bag of names)
  nLoads,            \* number of fetchAllSessionData calls started
  network,           \* the outcomes the fetch of line 343 can have
  seeded,            \* itemsData of the last setItemCache(itemsData), line 408
  issued,            \* the lookups the last step issued: [names, by]
  \* ---- inventory display (renderInventoryTab)
  shown,             \* the inventory item being categorized: [name]
  cached,            \* itemCache[shown.name] at that render (line 632)
  category,          \* what getItemCategory(item) returned
  large,             \* what isLargeTreasure(item) returned: <<>> before the
                     \* call, <<TRUE>> or <<FALSE>> after it
  groups,            \* the display groups whose filter kept the item: <<>>
                     \* before the filters ran, <<set of groups>> after
  \* ---- calendar (renderCalendar and the auto-advance effect)
  selectedDay,       \* useState('1_1'), line 315: a day key 'month_day'
  selectedMonth,     \* useState(1), line 316
  isAutoAdvancing,   \* useState(false), line 317
  autoAdvanceInterval, \* useState(null), line 318: a timer id or NoTimer
  timers,            \* the pending setTimeout calls of line 465:
                     \* [id, nextDay, stale]; stale records that the user
                     \* clicked a day or Stop after the timer was scheduled
  cleanupInterval,   \* autoAdvanceInterval as the cleanup of the last run
                     \* of the effect captured it (lines 482-486)
  lastEvent          \* the last calendar event: [kind, stale]

fsVars     == <<itemsStore, spellsStore, inventoryFile, artifact>>
scriptVars == <<scriptPc, allItemData, sessionDirs, results>>
buildVars  == <<scriptVars, response, lastOp, built, reader, got>>
pageVars   == <<sessionId, sessionData, loading, mapReady, characterInventories,
                itemCache, loads, runs, hovers, nLoads, network, seeded,
                issued>>
classVars  == <<shown, cached, category, large, groups>>
calendarVars == <<selectedDay, selectedMonth, isAutoAdvancing,
                  autoAdvanceInterval, timers, cleanupInterval, lastEvent>>
vars       == <<fsVars, buildVars, pageVars, classVars, calendarVars>>

-----------------------------------------------------------------------------
(* JavaScript values                                                       *)

Undefined == "<undefined>"
NullRef   == "<null>"

\* A JS object with string keys: the sequence of its [k, v] entries in
\* insertion order (the order of Object.keys and of JSON.stringify).
ObjHas(o, k)  == \E i \in 1..Len(o) : o[i].k = k
ObjGet(o, k)  == o[CHOOSE i \in 1..Len(o) : o[i].k = k].v
ObjPut(o, k, v) ==
  IF ObjHas(o, k)
  THEN [i \in 1..Len(o) |-> IF o[i].k = k THEN [k |-> k, v |-> v] ELSE o[i]]
  ELSE Append(o, [k |-> k, v |-> v])
ObjKeys(o)    == {o[i].k : i \in 1..Len(o)}

\* { ...a, ...b }
RECURSIVE ObjSpread(_, _)
ObjSpread(a, b) ==
  IF b = <<>> THEN a
  ELSE ObjSpread(ObjPut(a, Head(b).k, Head(b).v), Tail(b))

\* A JS Set: the sequence of its members in insertion order.
SeqHas(s, x)  == \E i \in 1..Len(s) : s[i] = x
Range(s)      == {s[i] : i \in 1..Len(s)}

-----------------------------------------------------------------------------
(* Catalog stores                                                          *)

F(name, id, blocks) ==
  [json |-> TRUE, ok |-> TRUE, name |-> name, id |-> id,
   hasBlocks |-> TRUE, blocks |-> blocks, hasParts |-> TRUE, parts |-> <<"p">>]
Bare(name, id) ==
  [json |-> TRUE, ok |-> TRUE, name |-> name, id |-> id,
   hasBlocks |-> FALSE, blocks |-> {}, hasParts |-> FALSE, parts |-> <<>>]
Malformed == [F("broken", "x", {}) EXCEPT !.ok = FALSE]
Dir(files)   == [isDir |-> TRUE, files |-> files]
Store(dirs)  == [exists |-> TRUE, dirs |-> dirs]
MissingStore == [exists |-> FALSE, dirs |-> <<>>]

\* the record built from a parsed file (lines 29-34, 55-60, 94-99, 125-130)
ToRecord(f) ==
  [id |-> f.id, name |-> f.name,
   attributeBlocks |-> IF f.hasBlocks THEN f.blocks ELSE {},
   parts |-> IF f.hasParts THEN f.parts ELSE <<>>]

\* the .json files of the subdirectories of a store, in scan order
RECURSIVE FlatFiles(_)
FlatFiles(dirs) ==
  IF dirs = <<>> THEN <<>>
  ELSE (IF Head(dirs).isDir
        THEN SelectSeq(Head(dirs).files, LAMBDA f : f.json)
        ELSE <<>>) \o FlatFiles(Tail(dirs))
StoreFiles(store) == IF store.exists THEN FlatFiles(store.dirs) ELSE <<>>

\* a scan that skips a malformed file
ScanThrowsNever(store) == FALSE

\* a scan that also throws when the store directory is missing (readdirSync
\* without the existsSync test)
ScanThrowsOnMissing(store) ==
  ~store.exists \/ \E i \in 1..Len(StoreFiles(store)) : ~StoreFiles(store)[i].ok

\* JSON.parse of a scanned file throws
ScanThrows(store) == \E i \in 1..Len(StoreFiles(store)) : ~StoreFiles(store)[i].ok

RECURSIVE PutFiles(_, _)
PutFiles(obj, files) ==
  IF files = <<>> THEN obj
  ELSE PutFiles(ObjPut(obj, Head(files).name, ToRecord(Head(files))), Tail(files))

\* a load that scans the spells store first
loadAllItemDataSpellsFirst(items, spells) ==
  PutFiles(PutFiles(<<>>, StoreFiles(spells)), StoreFiles(items))

\* scripts/precompute_all_session_items.js: loadAllItemData
loadAllItemData(items, spells) ==
  PutFiles(PutFiles(<<>>, StoreFiles(items)), StoreFiles(spells))

-----------------------------------------------------------------------------
(* Inventory name extractor                                                *)

Char(w, a, t, g, s, n, o, u) ==
  [hasItems |-> TRUE, weapons |-> w, armor |-> a, treasures |-> t,
   great_treasures |-> g, spells |-> s, natives |-> n, other |-> o,
   unknown |-> u]
\* an absent bucket: itemArrays.flat() leaves one undefined element for it
Absent == <<Undefined>>

\* the buckets without 'other'
itemArraysWithoutOther(c) ==
  c.weapons \o c.armor \o c.treasures \o c.great_treasures \o
  c.spells \o c.natives \o c.unknown

\* itemArrays.flat()
itemArrays(c) ==
  c.weapons \o c.armor \o c.treasures \o c.great_treasures \o
  c.spells \o c.natives \o c.other \o c.unknown

\* .filter(Boolean).forEach(item => { if (item?.name) allItems.add(item.name) })
\* an item reference is modelled by its name; "" is a reference without name
RECURSIVE AddNames(_, _)
AddNames(set, refs) ==
  IF refs = <<>> THEN set
  ELSE AddNames(IF Head(refs) \in {Undefined, NullRef, ""}
                THEN set
                ELSE IF SeqHas(set, Head(refs)) THEN set
                ELSE Append(set, Head(refs)),
                Tail(refs))

RECURSIVE CollectNames(_, _)
CollectNames(set, chars) ==
  IF chars = <<>> THEN set
  ELSE CollectNames(IF Head(chars).hasItems
                    THEN AddNames(set, itemArrays(Head(chars)))
                    ELSE set,
                    Tail(chars))

\* the Set allItems built from the parsed inventories
extractAllItems(chars) == CollectNames(<<>>, chars)

-----------------------------------------------------------------------------
(* Session cache builders                                                  *)

\* outcome of fs.writeFileSync (not atomic: a failed write may leave the old
\* file, or a truncated one)
WriteOutcomes == {"ok", "fail_untouched", "fail_truncated"}
NoArtifact == [exists |-> FALSE, intact |-> TRUE, obj |-> <<>>]

\* a write that appends to the file (flag 'a')
writeFileSyncAppending(old, obj, w) ==
  CASE w = "ok"             -> [exists |-> TRUE, intact |-> TRUE,
                                obj |-> old.obj \o obj]
    [] w = "fail_untouched" -> old
    [] w = "fail_truncated" -> [exists |-> TRUE, intact |-> FALSE, obj |-> <<>>]

\* a write of the old content with the new entries merged into it
writeFileSyncMerging(old, obj, w) ==
  CASE w = "ok"             -> [exists |-> TRUE, intact |-> TRUE,
                                obj |-> ObjSpread(old.obj, obj)]
    [] w = "fail_untouched" -> old
    [] w = "fail_truncated" -> [exists |-> TRUE, intact |-> FALSE, obj |-> <<>>]

writeFileSync(old, obj, w) ==
  CASE w = "ok"             -> [exists |-> TRUE, intact |-> TRUE, obj |-> obj]
    [] w = "fail_untouched" -> old
    [] w = "fail_truncated" -> [exists |-> TRUE, intact |-> FALSE, obj |-> <<>>]
\* fs.writeFileSync opens the file with flag 'w' (the file is truncated) and
\* then writes the content: the file states another process can read while
\* the call runs and after it
duringWrite(old, obj, w) ==
  LET Truncated == [exists |-> TRUE, intact |-> FALSE, obj |-> <<>>]
  IN CASE w = "ok"             -> {old, Truncated, writeFileSync(old, obj, w)}
       [] w = "fail_untouched" -> {old}
       [] w = "fail_truncated" -> {old, Truncated}

\* script, lines 106-116: for (const itemName of allItems) ...
RECURSIVE findMatching(_, _, _)
findMatching(names, catalog, acc) ==
  IF names = <<>> THEN acc
  ELSE findMatching(Tail(names), catalog,
         IF ObjHas(catalog, Head(names))
         THEN [acc EXCEPT !.sessionItems =
                 ObjPut(@, Head(names), ObjGet(catalog, Head(names)))]
         ELSE [acc EXCEPT !.missingItems = Append(@, Head(names))])

\* a write that throws, with the catch of line 130 returning as line 122 does
statusAfterWriteSwallowed(w) == "success"

\* script, lines 118-133: the return after the write, or the catch
statusAfterWrite(w) == IF w = "ok" THEN "success" ELSE "error"

\* script: processSession(sessionId, allItemData), lines 69-134; w is the
\* outcome of the write. Returns the locals and the returned object.
processSession(inv, catalog, w) ==
  IF ~inv.exists
  THEN [status |-> "no_inventories", wrote |-> FALSE, allItems |-> <<>>,
        sessionItems |-> <<>>, missingItems |-> <<>>,
        itemsFound |-> 0, totalItems |-> 0, missingCount |-> 0]
  ELSE IF ~inv.ok
  THEN [status |-> "error", wrote |-> FALSE, allItems |-> <<>>,
        sessionItems |-> <<>>, missingItems |-> <<>>,
        itemsFound |-> 0, totalItems |-> 0, missingCount |-> 0]
  ELSE LET allItems == extractAllItems(inv.chars)
           m == findMatching(allItems, catalog,
                             [sessionItems |-> <<>>, missingItems |-> <<>>])
       IN [status |-> statusAfterWrite(w),
           wrote |-> TRUE, allItems |-> allItems,
           sessionItems |-> m.sessionItems, missingItems |-> m.missingItems,
           itemsFound |-> IF w = "ok" THEN Len(m.sessionItems) ELSE 0,
           totalItems |-> IF w = "ok" THEN Len(allItems) ELSE 0,
           missingCount |-> IF w = "ok" THEN Len(m.missingItems) ELSE 0]

\* route, lines 76-103: searchForItems(searchDir, itemNames). Line 91 declares
\* a block-scoped const itemData holding the parsed file; it shadows the
\* result object of line 73, so the assignment of lines 94-99 sets a property
\* of the parsed file, which is dropped at the end of the iteration.
RECURSIVE searchForItems(_, _, _)
searchForItems(outer, files, itemNames) ==
  IF files = <<>> THEN outer
  ELSE LET parsed == Head(files)
           local  == IF SeqHas(itemNames, parsed.name)
                     THEN <<parsed, ToRecord(parsed)>> ELSE <<parsed>>
       IN searchForItems(outer, Tail(files), itemNames)

\* searchSpells without the allItems.has test of line 124
searchSpellsUnfiltered(itemData, files, allItems) == PutFiles(itemData, files)

\* route, lines 109-134: the spells loop writes the result object of line 73
RECURSIVE searchSpells(_, _, _)
searchSpells(itemData, files, allItems) ==
  IF files = <<>> THEN itemData
  ELSE searchSpells(IF SeqHas(allItems, Head(files).name)
                    THEN ObjPut(itemData, Head(files).name, ToRecord(Head(files)))
                    ELSE itemData,
                    Tail(files), allItems)

\* the missing names without the filter of line 144
routeMissingAll(allItems, itemData) == allItems

\* route, line 144: Array.from(allItems).filter(name => !itemData[name])
routeMissing(allItems, itemData) ==
  SelectSeq(allItems, LAMBDA n : ~ObjHas(itemData, n))

\* route: POST, lines 12-154
POST(inv, items, spells, w) ==
  IF ~inv.exists
  THEN [status |-> 404, wrote |-> FALSE, allItems |-> <<>>, itemData |-> <<>>,
        itemsFound |-> 0, totalItems |-> 0, missingItems |-> <<>>]
  ELSE IF ~inv.ok \/ ScanThrows(items) \/ ScanThrows(spells)
  THEN [status |-> 500, wrote |-> FALSE, allItems |-> <<>>, itemData |-> <<>>,
        itemsFound |-> 0, totalItems |-> 0, missingItems |-> <<>>]
  ELSE LET allItems == extractAllItems(inv.chars)
           found1 == searchForItems(<<>>, StoreFiles(items), allItems)
           itemData == searchSpells(found1, StoreFiles(spells), allItems)
       IN IF w = "ok"
          THEN [status |-> 200, wrote |-> TRUE, allItems |-> allItems,
                itemData |-> itemData, itemsFound |-> Len(itemData),
                totalItems |-> Len(allItems),
                missingItems |-> routeMissing(allItems, itemData)]
          ELSE [status |-> 500, wrote |-> TRUE, allItems |-> allItems,
                itemData |-> itemData, itemsFound |-> 0, totalItems |-> 0,
                missingItems |-> <<>>]

\* route: GET precomputed-items, lines 159-201
GET(art) ==
  IF ~art.exists THEN [status |-> 404, items |-> <<>>]
  ELSE IF ~art.intact THEN [status |-> 500, items |-> <<>>]
  ELSE [status |-> 200, items |-> art.obj]

-----------------------------------------------------------------------------
(* Session page: calendar and auto-advance                                 *)

\* Object.keys(sessionData.days), in the order of the session log; a key
\* is 'month_day', kept as the sequence of its characters
Days ==
  << <<"1", "_", "2">>, <<"1", "_", "1", "0">>, <<"2", "_", "1">>,
     <<"1", "_", "1">> >>

\* lines 457-458, 468: key.split('_').map(Number), the pair <<month, day>>
splitNumbers(key) ==
  LET digits == <<"0", "1", "2", "3", "4", "5", "6", "7", "8", "9">>
      digit(c) == (CHOOSE i \in 1..10 : digits[i] = c) - 1
      sep == CHOOSE i \in 1..Len(key) : key[i] = "_"
      Number[n \in 0..Len(key)] ==
        [str \in {SubSeq(key, 1, sep - 1), SubSeq(key, sep + 1, Len(key))} |->
           IF n = 0 THEN 0
           ELSE 10 * Number[n - 1][str] + digit(str[n])]
      num(str) == Number[Len(str)][str]
  IN <<num(SubSeq(key, 1, sep - 1)), num(SubSeq(key, sep + 1, Len(key)))>>

\* lines 456-460 (and 353-357, 1106-1110): the day keys sorted by month,
\* then by day, both as numbers
dayKeys ==
  LET before(a, b) ==
        LET x == splitNumbers(a)
            y == splitNumbers(b)
        IN IF x[1] # y[1] THEN x[1] < y[1] ELSE x[2] < y[2]
      rank(k) == Cardinality({i \in 1..Len(Days) : before(Days[i], k)}) + 1
  IN [r \in 1..Len(Days) |-> CHOOSE k \in Range(Days) : rank(k) = r]

\* autoAdvanceInterval === null
NoTimer == 0

\* The auto-advance effect, lines 453-487, run after a render in which
\* isAutoAdvancing, selectedDay or sessionData changed; c is the state of that
\* render. The cleanup of the previous run goes first: it clears the timer
\* that autoAdvanceInterval held in the render of the previous run, not the
\* one the previous run scheduled. setIsAutoAdvancing(false) of line 475
\* causes a render in which the effect runs again.
autoAdvanceEffect(c) ==
  LET clear(ts, id) == {t \in ts : t.id # id}
      off(d) ==
        \* lines 477-480, after the cleanup of the run before
        [d EXCEPT !.timers = clear(clear(d.timers, d.cleanupInterval),
                                   d.autoAdvanceInterval),
                  !.autoAdvanceInterval = NoTimer,
                  !.cleanupInterval = d.autoAdvanceInterval]
      left == clear(c.timers, c.cleanupInterval)
      \* dayKeys.indexOf(selectedDay), counted from 1; 0 when not found
      currentIndex ==
        IF \E i \in 1..Len(dayKeys) : dayKeys[i] = c.selectedDay
        THEN CHOOSE i \in 1..Len(dayKeys) : dayKeys[i] = c.selectedDay
        ELSE 0
      \* the id setTimeout returns: one that no pending timer and no
      \* reference held by the component has
      interval ==
        CHOOSE i \in 1..(Cardinality(c.timers) + 3) :
          /\ i \notin {t.id : t \in c.timers}
          /\ i \notin {c.autoAdvanceInterval, c.cleanupInterval}
  IN IF c.isAutoAdvancing
     THEN IF currentIndex < Len(dayKeys)
          THEN [c EXCEPT !.timers = left \cup
                                     {[id |-> interval,
                                       nextDay |-> dayKeys[currentIndex + 1],
                                       stale |-> FALSE]},
                         !.autoAdvanceInterval = interval,
                         !.cleanupInterval = c.autoAdvanceInterval]
          ELSE off([c EXCEPT !.timers = left, !.isAutoAdvancing = FALSE,
                             !.cleanupInterval = c.autoAdvanceInterval])
     ELSE off(c)

\* The render after an event whose handler set selectedDay to day (with its
\* month), isAutoAdvancing to auto and left the pending timers ts: the
\* effect runs when one of its dependencies changed (line 487)
Rendered(day, auto, ts, kind, stale) ==
  LET c == [selectedDay |-> day, selectedMonth |-> splitNumbers(day)[1],
            isAutoAdvancing |-> auto,
            autoAdvanceInterval |-> autoAdvanceInterval, timers |-> ts,
            cleanupInterval |-> cleanupInterval]
      d == IF auto # isAutoAdvancing \/ day # selectedDay
           THEN autoAdvanceEffect(c) ELSE c
  IN /\ selectedDay' = d.selectedDay
     /\ selectedMonth' = d.selectedMonth
     /\ isAutoAdvancing' = d.isAutoAdvancing
     /\ autoAdvanceInterval' = d.autoAdvanceInterval
     /\ timers' = d.timers
     /\ cleanupInterval' = d.cleanupInterval
     /\ lastEvent' = [kind |-> kind, stale |-> stale]
     /\ UNCHANGED <<fsVars, buildVars, pageVars, classVars>>

\* line 1118: the Auto/Stop button, rendered with the calendar (lines 1104,
\* 1415-1421); the timers pending at a click of Stop are stale from then on
ToggleAuto ==
  /\ ~loading /\ sessionData
  /\ Rendered(selectedDay, ~isAutoAdvancing,
              IF isAutoAdvancing
              THEN {[t EXCEPT !.stale = TRUE] : t \in timers} ELSE timers,
              "toggle", FALSE)

\* lines 1143-1146: the button of a day; the timers pending at the click are
\* stale from then on
DayClick ==
  \E i \in 1..Len(dayKeys) :
    /\ ~loading /\ sessionData
    /\ Rendered(dayKeys[i], isAutoAdvancing,
                {[t EXCEPT !.stale = TRUE] : t \in timers}, "click", FALSE)

\* lines 465-470: the callback of a pending timer runs
TimerFires ==
  \E t \in timers :
    Rendered(t.nextDay, isAutoAdvancing, timers \ {t}, "timer", t.stale)

\* the calendar with no timer scheduled and the given day selected
CalendarIdle(day) ==
  /\ selectedDay = day /\ selectedMonth = splitNumbers(day)[1]
  /\ isAutoAdvancing = FALSE /\ autoAdvanceInterval = NoTimer
  /\ timers = {} /\ cleanupInterval = NoTimer
  /\ lastEvent = [kind |-> "none", stale |-> FALSE]

-----------------------------------------------------------------------------
(* Session page: runtime item cache                                        *)

\* The itemCache state: a JS object whose key order is never read by the
\* page, kept as the set of its [k, v] entries.
CacheHas(c, k)    == \E e \in c : e.k = k
CacheGet(c, k)    == (CHOOSE e \in c : e.k = k).v
CachePut(c, k, v) == {e \in c : e.k # k} \cup {[k |-> k, v |-> v]}
CacheKeys(c)      == {e.k : e \in c}
FromObj(o)        == {o[i] : i \in 1..Len(o)}

batchSize  == 5     \* line 549
cacheFloor == 10    \* line 517

\* bounds of the exploration
MaxRuns     == 3    \* fetchAllItemData calls in flight
MaxInFlight == 6    \* single-item lookups in flight
MaxLoads    == 2    \* fetchAllSessionData calls started
MaxHovers   == 1    \* hover-triggered lookups in flight

\* line 408: setItemCache(itemsData)
seed(cache, itemsData) == FromObj(itemsData)

\* a completion that leaves the cache as it was
storeItemLost(prev, itemName, item) == prev

\* a completion that adds its record to the map of the first render after
\* the seed, the one a lookup of the first batch captured
storeItemCaptured(prev, itemName, item) == CachePut(seeded, itemName, item)

\* line 502: setItemCache(prev => ({ ...prev, [itemName]: item }))
storeItem(prev, itemName, item) == CachePut(prev, itemName, item)

\* the single-item lookup service /api/items/<name>: the catalog record of
\* the name, or not found
lookupItem(items, spells, name) ==
  LET catalog == loadAllItemData(items, spells)
  IN IF ~ScanThrows(items) /\ ~ScanThrows(spells) /\ ObjHas(catalog, name)
     THEN [ok |-> TRUE, item |-> ObjGet(catalog, name)]
     ELSE [ok |-> FALSE, item |-> ToRecord(Bare(name, "none"))]

\* lines 552-560: the lookups one batch issues: batch.map(itemName =>
\* !itemCache[itemName] ? fetchItem(itemName) : Promise.resolve(null)), with
\* fetchItem (lines 491-493) testing the same captured itemCache
batchOf(items, i) ==
  {items[j] : j \in {j \in 1..Len(items) : i < j /\ j <= i + batchSize}}
\* a batch that looks up every name of its slice, cached or not
batchLookupsAll(items, i, have) == batchOf(items, i)

batchLookups(items, i, have) == {n \in batchOf(items, i) : n \notin have}

\* an effect that starts batch resolution only over a seeded cache
effectStartsSeeded(inv, ready, cache) ==
  /\ inv.loaded
  /\ ready
  /\ cache # {}
  /\ ~(Cardinality(cache) > cacheFloor)
  /\ extractAllItems(inv.chars) # <<>>

\* an effect without the mapReady guard of line 514
effectStartsUnready(inv, ready, cache) ==
  /\ inv.loaded
  /\ ~(Cardinality(cache) > cacheFloor)
  /\ extractAllItems(inv.chars) # <<>>

\* lines 512-570: the effect body for one render. have is the key set of the
\* itemCache the closure captured; it is the only use the run makes of it.
effectStarts(inv, ready, cache) ==
  /\ inv.loaded
  /\ ready
  /\ ~(Cardinality(cache) > cacheFloor)
  /\ extractAllItems(inv.chars) # <<>>

newRun(inv, cache) ==
  LET items == extractAllItems(inv.chars)
  IN [items |-> items, have |-> CacheKeys(cache), i |-> 0, phase |-> "batch",
      pending |-> batchLookups(items, 0, CacheKeys(cache))]

NoneIssued == [names |-> {}, by |-> "none"]

\* bags of calls in flight
One(x)        == SetToBag({x})
Put(bag, x)   == bag (+) One(x)
Drop(bag, x)  == bag (-) One(x)
Swap(bag, x, y) == Put(Drop(bag, x), y)

RECURSIVE PendingCount(_, _)
PendingCount(rs, todo) ==
  IF todo = {} THEN 0
  ELSE LET r == CHOOSE x \in todo : TRUE
       IN CopiesIn(r, rs) * Cardinality(r.pending)
            + PendingCount(rs, todo \ {r})
\* the single-item lookups in flight that batch resolution issued
BatchInFlight(rs) == PendingCount(rs, BagToSet(rs))
\* the single-item lookups in flight
InFlight(rs, hv) == BatchInFlight(rs) + BagCardinality(hv)

\* A render after which a dependency of the effect (line 570) changed: the
\* effect runs with the rendered state.
Render(inv, ready, cache, rs, hv) ==
  IF effectStarts(inv, ready, cache)
  THEN /\ BagCardinality(rs) < MaxRuns
       /\ InFlight(Put(rs, newRun(inv, cache)), hv) <= MaxInFlight
       /\ runs' = Put(rs, newRun(inv, cache))
       /\ issued' = [names |-> newRun(inv, cache).pending, by |-> "batch"]
  ELSE /\ runs' = rs
       /\ issued' = NoneIssued

Sessions == {"s1", "s2"}
NullInventories == [loaded |-> FALSE, chars |-> <<>>]

\* /api/session/<id>/character-inventories: the parsed file, or a non-OK
\* response
inventoriesResponse(file) ==
  IF file.exists /\ file.ok THEN [loaded |-> TRUE, chars |-> file.chars]
  ELSE NullInventories

\* useEffect([sessionId]), lines 325-423: a new params.id starts
\* fetchAllSessionData; no state is reset
ChangeSession ==
  \E s \in Sessions \ {sessionId} :
    /\ nLoads < MaxLoads
    /\ sessionId' = s
    /\ loads' = Put(loads, [sid |-> s, stage |-> "fetching"])
    /\ nLoads' = nLoads + 1
    /\ issued' = NoneIssued
    /\ UNCHANGED <<sessionData, loading, mapReady, characterInventories,
                   itemCache, runs, hovers, seeded, network>>
    /\ UNCHANGED <<fsVars, buildVars, classVars, calendarVars>>

\* lines 337-344 reject, or a body fails to parse: catch, finally (413-417)
LoadFail ==
  \E l \in BagToSet(loads) :
    /\ l.stage = "fetching"
    /\ loading' = FALSE
    /\ loads' = Drop(loads, l)
    /\ issued' = NoneIssued
    /\ UNCHANGED <<sessionId, sessionData, mapReady, characterInventories,
                   itemCache, runs, hovers, nLoads, seeded, network>>
    /\ UNCHANGED <<fsVars, buildVars, classVars, calendarVars>>

\* lines 346-394, rendered before the precomputed-items body is read
LoadInventories ==
  \E l \in BagToSet(loads) :
    /\ l.stage = "fetching"
    /\ sessionData' = TRUE
    /\ characterInventories' = inventoriesResponse(inventoryFile[l.sid])
    /\ loads' = Swap(loads, l, [l EXCEPT !.stage = "seed"])
    /\ Render(characterInventories', mapReady, itemCache, runs, hovers)
    /\ UNCHANGED <<sessionId, loading, mapReady, itemCache, hovers, nLoads,
                   seeded, network>>
    /\ UNCHANGED <<fsVars, buildVars, classVars>>
    \* lines 353-362: the last day of the log is selected
    /\ selectedDay' = dayKeys[Len(dayKeys)]
    /\ selectedMonth' = splitNumbers(selectedDay')[1]
    /\ UNCHANGED <<isAutoAdvancing, autoAdvanceInterval, timers,
                   cleanupInterval, lastEvent>>

\* lines 404-417: the seed, and setLoading(false) in the same render
SeedStep(l, inv, changed, net) ==
  LET pre == GET(artifact[l.sid])
  IN /\ loading' = FALSE
     /\ loads' = Drop(loads, l)
     /\ IF net = "ok" /\ pre.status = 200
        THEN /\ itemCache' = seed(itemCache, pre.items)
             /\ seeded' = FromObj(pre.items)
             /\ Render(inv, mapReady, itemCache', runs, hovers)
        ELSE /\ UNCHANGED <<itemCache, seeded>>
             /\ IF changed
                THEN Render(inv, mapReady, itemCache, runs, hovers)
                ELSE /\ issued' = NoneIssued
                     /\ UNCHANGED runs

seedAfterRender(l, net) ==
  /\ l.stage = "seed"
  /\ SeedStep(l, characterInventories, FALSE, net)
  /\ UNCHANGED <<sessionId, sessionData, mapReady, characterInventories,
                 hovers, nLoads, network>>
  /\ UNCHANGED <<fsVars, buildVars, classVars, calendarVars>>

LoadSeed ==
  \E l \in BagToSet(loads), net \in network : seedAfterRender(l, net)

\* lines 346-417 in one render: no render between 390 and 408
seedAtOnce(l, net) ==
  /\ l.stage = "fetching"
  /\ sessionData' = TRUE
  /\ characterInventories' = inventoriesResponse(inventoryFile[l.sid])
  /\ SeedStep(l, characterInventories', TRUE, net)
  /\ UNCHANGED <<sessionId, mapReady, hovers, nLoads, network>>
  /\ UNCHANGED <<fsVars, buildVars, classVars>>
  \* lines 353-362: the last day of the log is selected
  /\ selectedDay' = dayKeys[Len(dayKeys)]
  /\ selectedMonth' = splitNumbers(selectedDay')[1]
  /\ UNCHANGED <<isAutoAdvancing, autoAdvanceInterval, timers,
                 cleanupInterval, lastEvent>>

LoadAtOnce ==
  \E l \in BagToSet(loads), net \in network : seedAtOnce(l, net)

\* line 1487: onMapReady; SessionMap is rendered once loading is false and
\* sessionData is set (lines 1415-1430)
MapReady ==
  /\ ~loading /\ sessionData /\ ~mapReady
  /\ mapReady' = TRUE
  /\ Render(characterInventories, TRUE, itemCache, runs, hovers)
  /\ UNCHANGED <<sessionId, sessionData, loading, characterInventories,
                 itemCache, loads, hovers, nLoads, seeded, network>>
  /\ UNCHANGED <<fsVars, buildVars, classVars, calendarVars>>

\* lines 673, 694: onMouseEnter={() => fetchItem(item.name)} on a rendered
\* inventory item whose name is not cached (lines 490-496); on a cached name
\* fetchItem returns itemCache[itemName] and changes nothing
Hover ==
  \E n \in Range(extractAllItems(characterInventories.chars)) :
    /\ ~loading /\ sessionData /\ characterInventories.loaded
    /\ ~CacheHas(itemCache, n)
    /\ BagCardinality(hovers) < MaxHovers
    /\ InFlight(runs, hovers) < MaxInFlight
    /\ hovers' = Put(hovers, n)
    /\ issued' = [names |-> {n}, by |-> "hover"]
    /\ UNCHANGED <<sessionId, sessionData, loading, mapReady,
                   characterInventories, itemCache, loads, runs, nLoads,
                   seeded, network>>
    /\ UNCHANGED <<fsVars, buildVars, classVars, calendarVars>>


\* a failed lookup that records the name as a key without a record (the
\* entry holds null in the place of the record's fields)
fetchItemFailedCached(prev, itemName) ==
  CachePut(prev, itemName, [name |-> NullRef])

\* lines 497, 503-506: if (!response.ok) return null, and the catch block:
\* the itemCache state after a failed lookup (setItemCache is not called)
fetchItemFailed(prev, itemName) == prev

\* a failed lookup that rejects: Promise.all rejects and fetchAllItemData
\* ends
lookupSettledRejecting(rs, r, n, ok) ==
  IF ok THEN Swap(rs, r, [r EXCEPT !.pending = @ \ {n}]) ELSE Drop(rs, r)

\* lines 553-560: the promise of fetchItem(n) in the Promise.all of run r is
\* fulfilled, with the record or with null (lines 497, 503, 505): the run
\* goes on awaiting the other lookups of its batch
lookupSettled(rs, r, n, ok) == Swap(rs, r, [r EXCEPT !.pending = @ \ {n}])

\* fetchItem lines 496-507: the lookup run r issued for n settles with out
fetchItemSettles(r, n, out) ==
  LET res == lookupItem(itemsStore, spellsStore, n)
      ok  == out = "response" /\ res.ok
      rs  == lookupSettled(runs, r, n, ok)
  IN /\ IF ok
        THEN /\ itemCache' = storeItem(itemCache, n, res.item)
             /\ Render(characterInventories, mapReady, itemCache', rs, hovers)
        ELSE /\ runs' = rs
             /\ issued' = NoneIssued
             /\ itemCache' = fetchItemFailed(itemCache, n)
     /\ UNCHANGED <<sessionId, sessionData, loading, mapReady,
                    characterInventories, loads, hovers, nLoads, seeded,
                    network>>
     /\ UNCHANGED <<fsVars, buildVars, classVars, calendarVars>>

BatchLookupSettles ==
  \E r \in BagToSet(runs), out \in {"response", "error"} :
    \E n \in r.pending : fetchItemSettles(r, n, out)

\* fetchItem lines 496-507, for a hover-triggered lookup
HoverLookupSettles ==
  \E n \in BagToSet(hovers), out \in {"response", "error"} :
    LET res == lookupItem(itemsStore, spellsStore, n)
    IN /\ hovers' = Drop(hovers, n)
       /\ IF out = "response" /\ res.ok
          THEN /\ itemCache' = storeItem(itemCache, n, res.item)
               /\ Render(characterInventories, mapReady, itemCache', runs,
                         hovers')
          ELSE /\ issued' = NoneIssued
               /\ itemCache' = fetchItemFailed(itemCache, n)
               /\ UNCHANGED runs
       /\ UNCHANGED <<sessionId, sessionData, loading, mapReady,
                      characterInventories, loads, nLoads, seeded, network>>
       /\ UNCHANGED <<fsVars, buildVars, classVars, calendarVars>>

\* an await that resumes as soon as the batch was issued
allSettledAtOnce(r) == r.phase = "batch"

\* lines 553-560: await Promise.all(batch.map(...)) of run r resumes: every
\* promise of the batch is fulfilled
allSettled(r) == r.phase = "batch" /\ r.pending = {}

\* lines 553-565: Promise.all of the batch resolves; the loop ends after the
\* last batch, or waits 50 ms
BatchSettled ==
  \E r \in BagToSet(runs) :
    /\ allSettled(r)
    /\ runs' = IF r.i + batchSize < Len(r.items)
               THEN Swap(runs, r, [r EXCEPT !.phase = "delay"])
               ELSE Drop(runs, r)
    /\ issued' = NoneIssued
    /\ UNCHANGED <<sessionId, sessionData, loading, mapReady,
                   characterInventories, itemCache, loads, hovers, nLoads,
                   seeded, network>>
    /\ UNCHANGED <<fsVars, buildVars, classVars, calendarVars>>

\* lines 551-560: the delay elapsed, the next batch is issued
DelayElapsed ==
  \E r \in BagToSet(runs) :
    LET i   == r.i + batchSize
        new == batchLookups(r.items, i, r.have)
        rs  == Swap(runs, r, [r EXCEPT !.i = i, !.phase = "batch",
                                       !.pending = new])
    IN /\ r.phase = "delay"
       /\ InFlight(rs, hovers) <= MaxInFlight
       /\ runs' = rs
       /\ issued' = [names |-> new, by |-> "batch"]
       /\ UNCHANGED <<sessionId, sessionData, loading, mapReady,
                      characterInventories, itemCache, loads, hovers, nLoads,
                      seeded, network>>
       /\ UNCHANGED <<fsVars, buildVars, classVars, calendarVars>>

-----------------------------------------------------------------------------
(* Inventory display: categories                                           *)

\* A string the display tests by its characters: the sequence of them.
\* String.prototype.toLowerCase
toLowerCase(str) ==
  LET UpperCase == <<"A", "B", "C", "D", "E", "F", "G", "H", "I", "J", "K", "L", "M", "N", "O", "P", "Q", "R", "S", "T", "U", "V", "W", "X", "Y", "Z">>
      LowerCase == <<"a", "b", "c", "d", "e", "f", "g", "h", "i", "j", "k", "l", "m", "n", "o", "p", "q", "r", "s", "t", "u", "v", "w", "x", "y", "z">>
  IN [i \in 1..Len(str) |->
        IF \E j \in 1..Len(UpperCase) : UpperCase[j] = str[i]
        THEN LowerCase[CHOOSE j \in 1..Len(UpperCase) : UpperCase[j] = str[i]]
        ELSE str[i]]
\* String.prototype.includes
includes(str, sub) ==
  \E i \in 0..(Len(str) - Len(sub)) : SubSeq(str, i + 1, i + Len(sub)) = sub

\* lines 828-833, 837-838, 842-844, 848-849, 854-855, 860-861: the
\* substrings each test of categorizeItemByName looks for
weaponWords ==
  { <<"b", "o", "w">>,
    <<"s", "w", "o", "r", "d">>,
    <<"a", "x", "e">>,
    <<"s", "p", "e", "a", "r">>,
    <<"m", "a", "c", "e">>,
    <<"s", "t", "a", "f", "f">>,
    <<"c", "r", "o", "s", "s", "b", "o", "w">>,
    <<"h", "a", "l", "b", "e", "r", "d">>,
    <<"b", "r", "o", "a", "d", "s", "w", "o", "r", "d">>,
    <<"g", "r", "e", "a", "t", " ", "s", "w", "o", "r", "d">>,
    <<"g", "r", "e", "a", "t", " ", "a", "x", "e">>,
    <<"m", "o", "r", "n", "i", "n", "g", " ", "s", "t", "a", "r">>,
    <<"t", "h", "r", "u", "s", "t", "i", "n", "g", " ", "s", "w", "o", "r", "d">>,
    <<"s", "h", "o", "r", "t", " ", "s", "w", "o", "r", "d">> }
armorWords ==
  { <<"a", "r", "m", "o", "r">>,
    <<"s", "h", "i", "e", "l", "d">>,
    <<"h", "e", "l", "m", "e", "t">>,
    <<"b", "r", "e", "a", "s", "t", "p", "l", "a", "t", "e">>,
    <<"g", "r", "e", "a", "v", "e", "s">>,
    <<"g", "a", "u", "n", "t", "l", "e", "t", "s">> }
spellWords ==
  { <<"p", "e", "a", "c", "e", " ", "w", "i", "t", "h", " ", "n", "a", "t", "u", "r", "e">>,
    <<"t", "y", "p", "e", " ", "v", "i", "i">>,
    <<"t", "y", "p", "e", " ", "v", "i">>,
    <<"t", "y", "p", "e", " ", "v">>,
    <<"t", "y", "p", "e", " ", "i", "v">>,
    <<"t", "y", "p", "e", " ", "i", "i", "i">>,
    <<"t", "y", "p", "e", " ", "i", "i">>,
    <<"t", "y", "p", "e", " ", "i">> }
greatWord == <<"g", "r", "e", "a", "t">>
greatTreasureWords ==
  { <<"t", "r", "e", "a", "s", "u", "r", "e">>,
    <<"s", "w", "o", "r", "d">>,
    <<"a", "x", "e">>,
    <<"a", "r", "m", "o", "r">> }
treasureWords ==
  { <<"t", "r", "e", "a", "s", "u", "r", "e">>,
    <<"g", "o", "l", "d">>,
    <<"j", "e", "w", "e", "l">>,
    <<"g", "e", "m">>,
    <<"c", "o", "i", "n">> }
nativeWords ==
  { <<"n", "a", "t", "i", "v", "e">>,
    <<"g", "u", "a", "r", "d">>,
    <<"m", "e", "r", "c", "e", "n", "a", "r", "y">>,
    <<"l", "a", "n", "c", "e", "r">>,
    <<"d", "w", "a", "r", "f">>,
    <<"e", "l", "f">> }

\* the heuristic testing the treasure keywords before the great treasures
categorizeItemByNameTreasureFirst(itemName) ==
  LET name == toLowerCase(itemName)
      any(ws) == \E w \in ws : includes(name, w)
  IN IF any(weaponWords) THEN "weapon"
     ELSE IF any(armorWords) THEN "armor"
     ELSE IF any(spellWords) THEN "spell"
     ELSE IF any(treasureWords) THEN "treasure"
     ELSE IF includes(name, greatWord) /\ any(greatTreasureWords)
          THEN "great_treasure"
     ELSE IF any(nativeWords) THEN "native"
     ELSE "other"

\* the heuristic testing the great treasures before the weapons
categorizeItemByNameGreatFirst(itemName) ==
  LET name == toLowerCase(itemName)
      any(ws) == \E w \in ws : includes(name, w)
  IN IF includes(name, greatWord) /\ any(greatTreasureWords)
     THEN "great_treasure"
     ELSE IF any(weaponWords) THEN "weapon"
     ELSE IF any(armorWords) THEN "armor"
     ELSE IF any(spellWords) THEN "spell"
     ELSE IF any(treasureWords) THEN "treasure"
     ELSE IF any(nativeWords) THEN "native"
     ELSE "other"

\* lines 824-868
categorizeItemByName(itemName) ==
  LET name == toLowerCase(itemName)
      any(ws) == \E w \in ws : includes(name, w)
  IN IF any(weaponWords) THEN "weapon"
     ELSE IF any(armorWords) THEN "armor"
     ELSE IF any(spellWords) THEN "spell"
     ELSE IF includes(name, greatWord) /\ any(greatTreasureWords)
          THEN "great_treasure"
     ELSE IF any(treasureWords) THEN "treasure"
     ELSE IF any(nativeWords) THEN "native"
     ELSE "other"

\* An entry of itemCache as the display reads it: found says whether
\* itemCache[item.name] is a record; each block of attributeBlocks is
\* undefined or an object; the attributes of the block 'this' are undefined
\* or strings.
NotCached ==
  [found |-> FALSE,
   attributeBlocks |-> [intact |-> Undefined, damaged |-> Undefined,
                        unalerted |-> Undefined, alerted |-> Undefined,
                        this |-> [found |-> FALSE, spell |-> Undefined,
                                  base_price |-> Undefined,
                                  treasure |-> Undefined]]]

\* the truth value JavaScript gives a value in a condition
Truthy(v) == v \notin {Undefined, NullRef, ""}
\* this?.attr
Opt(this, attr) == IF this.found THEN this[attr] ELSE Undefined

\* lines 631-647: c is itemCache[item.name]
getItemCategory(it, c) ==
  LET b == c.attributeBlocks
  IN IF c.found /\ Truthy(b.intact) /\ Truthy(b.damaged) THEN "armor"
     ELSE IF c.found /\ Truthy(b.unalerted) /\ Truthy(b.alerted) THEN "weapon"
     ELSE IF c.found /\ Truthy(Opt(b.this, "spell")) THEN "spell"
     ELSE IF c.found /\ Truthy(Opt(b.this, "base_price"))
          THEN IF Opt(b.this, "treasure") = "large" THEN "large_treasure"
               ELSE "treasure"
     ELSE categorizeItemByName(it.name)

\* nothing categorized yet
NoCategory == "<none>"

\* line 657 and the other filters of lines 655-667: getItemCategory(item) is
\* called on a displayed item
Categorize ==
  /\ category = NoCategory
  /\ category' = getItemCategory(shown, cached)
  /\ UNCHANGED <<shown, cached, large, groups>>
  /\ UNCHANGED <<fsVars, buildVars, pageVars, calendarVars>>

\* isLargeTreasure answering by the category
isLargeTreasureByCategory(it, c) == getItemCategory(it, c) = "large_treasure"

\* lines 650-653: cached?.attributeBlocks.this?.treasure === 'large'
isLargeTreasure(it, c) ==
  c.found /\ Opt(c.attributeBlocks.this, "treasure") = "large"

\* lines 664, 666: isLargeTreasure(item) is called on a displayed item
LargeTest ==
  /\ large = <<>>
  /\ large' = <<isLargeTreasure(shown, cached)>>
  /\ UNCHANGED <<shown, cached, category, groups>>
  /\ UNCHANGED <<fsVars, buildVars, pageVars, calendarVars>>

\* lines 656-667: the filters of equipmentItems, treasureItems,
\* largeTreasureItems, greatTreasureItems and spellItems that keep the item
displayGroups(it, c) ==
  LET cat == getItemCategory(it, c)
      has(w) == includes(toLowerCase(it.name), w)
  IN { g \in {"equipment", "treasure", "large_treasure", "great_treasure",
              "spell"} :
         \/ /\ g = "equipment"
            /\ \/ cat \in {"weapon", "armor", "mount"}
               \/ /\ cat = "other"
                  /\ ~has(<<"t", "r", "e", "a", "s", "u", "r", "e">>)
                  /\ ~has(<<"s", "p", "e", "l", "l">>)
         \/ /\ g = "treasure"
            /\ cat = "treasure" /\ ~has(greatWord) /\ ~isLargeTreasure(it, c)
         \/ /\ g = "large_treasure"
            /\ isLargeTreasure(it, c)
         \/ /\ g = "great_treasure"
            /\ \/ cat = "great_treasure"
               \/ cat = "treasure" /\ has(greatWord)
         \/ /\ g = "spell"
            /\ cat = "spell" }

\* lines 656-667: the five filters run over a displayed item
Group ==
  /\ groups = <<>>
  /\ groups' = <<displayGroups(shown, cached)>>
  /\ UNCHANGED <<shown, cached, category, large>>
  /\ UNCHANGED <<fsVars, buildVars, pageVars, calendarVars>>

-----------------------------------------------------------------------------
(* Build operations                                                        *)

\* script, lines 151-154: the session directories, in listing order
sessionsDir ==
  << [name |-> ".DS_Store", isDir |-> FALSE, dot |-> TRUE],
     [name |-> "s1", isDir |-> TRUE, dot |-> FALSE],
     [name |-> ".trash", isDir |-> TRUE, dot |-> TRUE],
     [name |-> "notes.txt", isDir |-> FALSE, dot |-> FALSE],
     [name |-> "s2", isDir |-> TRUE, dot |-> FALSE] >>
RECURSIVE dirNames(_)
dirNames(entries) ==
  IF entries = <<>> THEN <<>>
  ELSE <<Head(entries).name>> \o dirNames(Tail(entries))

\* a loop that ends at the first session that is not a success
afterSessionStopping(dirs, status) ==
  IF status = "success" THEN Tail(dirs) ELSE <<>>

\* lines 160-165: the loop goes on to the next session directory whatever
\* processSession returned
afterSession(dirs, status) == Tail(dirs)

NoOp == [op |-> "none", session |-> "", success |-> FALSE, wrote |-> "none",
         allItems |-> <<>>, missingItems |-> <<>>]

\* whether the handler reached its write, and whether the write threw
writeResult(wrote, w) ==
  IF ~wrote THEN "none" ELSE IF w = "ok" THEN "ok" ELSE "threw"

\* the report of a session's last build if it succeeded: its builder, whether
\* the build of the session before it was a success of the same builder, the
\* keys of the artifact it overwrote, and its counts
NotBuilt == [by |-> "none", again |-> FALSE, over |-> {}, itemsFound |-> 0,
             totalItems |-> 0, missingItems |-> 0]
Report(by, before, old, itemsFound, totalItems, missingItems) ==
  [by |-> by, again |-> (before.by = by), over |-> ObjKeys(old.obj),
   itemsFound |-> itemsFound, totalItems |-> totalItems,
   missingItems |-> missingItems]

\* script: main, lines 137-156. A malformed record file makes loadAllItemData
\* throw: main rejects before any session is processed.
ScriptStart ==
  /\ scriptPc = "idle"
  /\ IF ScanThrows(itemsStore) \/ ScanThrows(spellsStore)
     THEN /\ lastOp' = [NoOp EXCEPT !.op = "main_failed"]
          /\ results' = <<>>
          /\ UNCHANGED <<scriptPc, allItemData, sessionDirs>>
     ELSE /\ allItemData' = loadAllItemData(itemsStore, spellsStore)
          /\ sessionDirs' =
               dirNames(SelectSeq(SelectSeq(sessionsDir, LAMBDA e : e.isDir),
                                  LAMBDA e : ~e.dot))
          /\ results' = <<>>
          /\ scriptPc' = "loop"
          /\ lastOp' = [NoOp EXCEPT !.op = "main"]
  /\ UNCHANGED <<fsVars, response, built, reader, got, pageVars, classVars, calendarVars>>

\* script: main, lines 160-173: one iteration of the loop; the server can
\* answer a GET precomputed-items of the session while the script writes
ScriptProcess ==
  \E w \in WriteOutcomes :
    LET s == Head(sessionDirs)
        r == processSession(inventoryFile[s], allItemData, w)
    IN /\ scriptPc = "loop"
       /\ r.wrote \/ w = "ok"
       /\ artifact' = IF r.wrote
                      THEN [artifact EXCEPT ![s] = writeFileSync(@, r.sessionItems, w)]
                      ELSE artifact
       /\ reader' = {GET(seen) : seen \in
                        IF r.wrote
                        THEN duringWrite(artifact[s], r.sessionItems, w)
                        ELSE {artifact[s]}}
       /\ results' = Append(results,
                            [sessionId |-> s, status |-> r.status,
                             itemsFound |-> r.itemsFound,
                             totalItems |-> r.totalItems,
                             missingItems |-> r.missingCount])
       /\ sessionDirs' = afterSession(sessionDirs, r.status)
       /\ scriptPc' = IF sessionDirs' = <<>> THEN "idle" ELSE "loop"
       /\ lastOp' = [op |-> "script", session |-> s,
                     success |-> (r.status = "success"),
                     wrote |-> writeResult(r.wrote, w),
                     allItems |-> r.allItems, missingItems |-> r.missingItems]
       /\ built' = [built EXCEPT ![s] =
                      IF r.status = "success"
                      THEN Report("script", built[s], artifact[s],
                                  r.itemsFound, r.totalItems, r.missingCount)
                      ELSE NotBuilt]
       /\ UNCHANGED <<itemsStore, spellsStore, inventoryFile, allItemData,
                      response, got, pageVars, classVars, calendarVars>>

\* route: POST precompute-items for one session; the server can answer a GET
\* precomputed-items of the session before or after it
Post ==
  \E s \in Sessions, w \in WriteOutcomes :
    LET r == POST(inventoryFile[s], itemsStore, spellsStore, w)
    IN /\ r.wrote \/ w = "ok"
       /\ artifact' = IF r.wrote
                      THEN [artifact EXCEPT ![s] = writeFileSync(@, r.itemData, w)]
                      ELSE artifact
       /\ reader' = {GET(seen) : seen \in
                        IF r.wrote
                        \* the handlers of the server run on one event
                        \* loop and the write is synchronous: a request
                        \* reads the file before or after the call
                        THEN {artifact[s],
                              writeFileSync(artifact[s], r.itemData, w)}
                        ELSE {artifact[s]}}
       /\ response' = [session |-> s, status |-> r.status,
                       itemsFound |-> r.itemsFound, totalItems |-> r.totalItems,
                       missingItems |-> r.missingItems]
       /\ lastOp' = [op |-> "post", session |-> s, success |-> (r.status = 200),
                     wrote |-> writeResult(r.wrote, w),
                     allItems |-> r.allItems, missingItems |-> r.missingItems]
       /\ built' = [built EXCEPT ![s] =
                      IF r.status = 200
                      THEN Report("post", built[s], artifact[s], r.itemsFound,
                                  r.totalItems, Len(r.missingItems))
                      ELSE NotBuilt]
       /\ UNCHANGED <<itemsStore, spellsStore, inventoryFile, scriptVars,
                      got, pageVars, classVars, calendarVars>>

\* route: GET precomputed-items for one session, lines 159-201: existsSync,
\* readFileSync and JSON.parse; no call of the handler writes
Get ==
  \E s \in Sessions :
    /\ got' = [session |-> s, status |-> GET(artifact[s]).status,
               items |-> GET(artifact[s]).items]
    /\ UNCHANGED <<fsVars, scriptVars, response, lastOp, built, reader,
                   pageVars, classVars, calendarVars>>

-----------------------------------------------------------------------------
(* Initial states                                                          *)

Weapon   == {"unalerted", "alerted"}
Armor    == {"intact", "damaged"}
Spell    == {"this.spell"}
Treasure == {"this.base_price"}

\* a store can hold a file that is no .json file (line 24) and an entry that
\* is no directory (line 17)
ItemsPlain  == Store(<<Dir(<<F("Short Sword", "i1", Weapon),
                             [F("readme", "x", {}) EXCEPT !.json = FALSE]>>),
                       [isDir |-> FALSE, files |-> <<>>],
                       Dir(<<F("Battle Armor", "i2", Armor)>>)>>)
ItemsDup    == Store(<<Dir(<<F("Short Sword", "i1", Weapon), Bare("Fog", "i9")>>),
                       Dir(<<F("Battle Armor", "i2", Armor),
                             F("Short Sword", "i7", Treasure)>>)>>)
ItemsBroken == Store(<<Dir(<<F("Short Sword", "i1", Weapon), Malformed>>)>>)
SpellsPlain == Store(<<Dir(<<F("Absorb Essence", "sp1", Spell)>>),
                       [isDir |-> FALSE, files |-> <<>>]>>)
SpellsDup   == Store(<<Dir(<<F("Absorb Essence", "sp1", Spell)>>),
                       Dir(<<F("Fog", "sp2", Spell),
                             [F("readme", "x", {}) EXCEPT !.json = FALSE]>>)>>)

InventoryFile(chars) == [exists |-> TRUE, ok |-> TRUE, chars |-> chars]
MissingInventories   == [exists |-> FALSE, ok |-> TRUE, chars |-> <<>>]

ThreeNames ==
  InventoryFile(<<Char(<<"Short Sword">>, <<"Battle Armor">>,
                       <<"Unknown Relic">>, <<>>, <<>>, <<>>, <<>>, <<>>)>>)
Messy ==
  InventoryFile(<<Char(<<"Short Sword", NullRef>>, Absent, <<"">>, <<>>,
                       <<"Absorb Essence", "Fog">>, Absent, <<>>,
                       <<"Short Sword">>),
                  \* a character entry that is null or has no items field
                  [Char(<<>>, <<>>, <<>>, <<>>, <<>>, <<>>, <<>>, <<>>)
                     EXCEPT !.hasItems = FALSE],
                  Char(<<>>, <<"Battle Armor">>, <<>>, Absent,
                       <<"Fog">>, <<>>, <<"Unknown Relic">>, <<>>)>>)

\* an artifact left by a build against an earlier catalog and earlier
\* inventories: Absorb Essence is not referenced any more, Golden Crown left
\* the catalog, Short Sword has another record now
PriorArtifact ==
  writeFileSync(NoArtifact,
                <<[k |-> "Golden Crown",
                   v |-> ToRecord(F("Golden Crown", "i3", Treasure))],
                  [k |-> "Short Sword",
                   v |-> ToRecord(F("Short Sword", "i0", Weapon))],
                  [k |-> "Absorb Essence",
                   v |-> ToRecord(F("Absorb Essence", "sp1", Spell))]>>,
                "ok")

\* the display has categorized nothing
NothingShown ==
  /\ shown = [name |-> <<>>] /\ cached = NotCached /\ category = NoCategory
  /\ large = <<>> /\ groups = <<>>

BuildIdle ==
  /\ scriptPc = "idle" /\ allItemData = <<>> /\ sessionDirs = <<>>
  /\ results = <<>>
  /\ response = [session |-> "", status |-> 0, itemsFound |-> 0,
                 totalItems |-> 0, missingItems |-> <<>>]
  /\ lastOp = NoOp
  /\ built = [s \in Sessions |-> NotBuilt]
  /\ reader = {}
  /\ got = [session |-> "", status |-> 0, items |-> <<>>]

\* the stores and inventories explored with two sessions to build, and with
\* an artifact left by an earlier build
WorkingStores == { <<ItemsPlain, SpellsPlain>>, <<ItemsDup, SpellsDup>> }

\* the sessions never built, or the first session built before the catalog
\* and its inventories changed, or before a record file was damaged
InitBuild ==
  /\ \/ /\ \E c \in { <<ItemsPlain, SpellsPlain>>, <<ItemsDup, SpellsDup>>,
                        <<MissingStore, SpellsPlain>>,
                        <<ItemsPlain, MissingStore>>,
                        <<MissingStore, MissingStore>>,
                        <<ItemsBroken, SpellsPlain>>,
                        <<ItemsPlain, Store(<<Dir(<<Malformed>>)>>)>> } :
              itemsStore = c[1] /\ spellsStore = c[2]
        /\ \E f \in { MissingInventories,
                      \* an inventories file that does not parse
                      [exists |-> TRUE, ok |-> FALSE, chars |-> <<>>],
                      InventoryFile(<<>>), ThreeNames, Messy } :
              inventoryFile = [s \in Sessions |->
                                 IF s = "s1" THEN f ELSE MissingInventories]
        /\ artifact = [s \in Sessions |-> NoArtifact]
     \/ /\ \E c \in WorkingStores : itemsStore = c[1] /\ spellsStore = c[2]
        /\ \E f \in {InventoryFile(<<>>), ThreeNames} :
              inventoryFile = [s \in Sessions |-> IF s = "s1" THEN f ELSE Messy]
        /\ artifact = [s \in Sessions |-> NoArtifact]
     \/ /\ \E c \in WorkingStores : itemsStore = c[1] /\ spellsStore = c[2]
        /\ \E f \in {ThreeNames, Messy} :
              inventoryFile = [s \in Sessions |->
                                 IF s = "s1" THEN f ELSE MissingInventories]
        /\ artifact = [s \in Sessions |->
                         IF s = "s1" THEN PriorArtifact ELSE NoArtifact]
     \/ /\ \E c \in { <<ItemsBroken, SpellsPlain>>,
                        <<ItemsPlain, Store(<<Dir(<<Malformed>>)>>)>> } :
              itemsStore = c[1] /\ spellsStore = c[2]
        /\ inventoryFile = [s \in Sessions |->
                              IF s = "s1" THEN ThreeNames ELSE Messy]
        /\ artifact = [s \in Sessions |->
                         IF s = "s1" THEN PriorArtifact ELSE NoArtifact]
  /\ BuildIdle
  \* the page is not open
  /\ NothingShown
  /\ CalendarIdle(<<"1", "_", "1">>)
  /\ sessionId = "s1" /\ sessionData = FALSE /\ loading = TRUE
  /\ mapReady = FALSE /\ characterInventories = NullInventories
  /\ itemCache = {} /\ loads = EmptyBag /\ runs = EmptyBag
  /\ hovers = EmptyBag
  /\ nLoads = 0 /\ network = {"ok"} /\ seeded = {} /\ issued = NoneIssued

NextBuild == ScriptStart \/ ScriptProcess \/ Post

SpecBuild == InitBuild /\ [][NextBuild]_vars

\* The builders and the read path over a session that has an artifact from
\* an earlier build (the catalog and the inventories changed since) and a
\* session that has none; the inventories of the first session are missing,
\* unparsable or present, a record file of the catalog can be malformed
InitRead ==
  /\ \E c \in WorkingStores \cup { <<ItemsBroken, SpellsPlain>> } :
        itemsStore = c[1] /\ spellsStore = c[2]
  /\ \E f \in { MissingInventories,
                [exists |-> TRUE, ok |-> FALSE, chars |-> <<>>],
                ThreeNames, Messy } :
        inventoryFile = [s \in Sessions |-> IF s = "s1" THEN f ELSE ThreeNames]
  /\ artifact = [s \in Sessions |->
                   IF s = "s1" THEN PriorArtifact ELSE NoArtifact]
  /\ BuildIdle
  /\ NothingShown
  /\ CalendarIdle(<<"1", "_", "1">>)
  /\ sessionId = "s1" /\ sessionData = FALSE /\ loading = TRUE
  /\ mapReady = FALSE /\ characterInventories = NullInventories
  /\ itemCache = {} /\ loads = EmptyBag /\ runs = EmptyBag
  /\ hovers = EmptyBag
  /\ nLoads = 0 /\ network = {"ok"} /\ seeded = {} /\ issued = NoneIssued

NextRead == Post \/ Get

SpecRead == InitRead /\ [][NextRead]_vars

\* both builders over the same file system: the script's run and the route
NextRebuild == ScriptStart \/ ScriptProcess \/ Post

SpecRebuild == InitRead /\ [][NextRebuild]_vars

-----------------------------------------------------------------------------
(* The session page over a fixed file system                               *)

\* the catalog while the page is viewed, and the older catalog some
\* artifacts were built from
ViewItems  == Store(<<Dir(<<F("Short Sword", "i1", Weapon),
                            F("Great Axe", "i5", Weapon)>>),
                      Dir(<<F("Battle Armor", "i2", Armor),
                            F("Iron Helmet", "i4", Armor)>>),
                      Dir(<<F("Golden Crown", "i3", Treasure)>>)>>)
ViewSpells == SpellsPlain
OldItems   == Store(<<Dir(<<F("Battle Armor", "i2a", Armor),
                            F("Iron Helmet", "i4", Armor)>>),
                      Dir(<<F("Golden Crown", "i3", Treasure)>>)>>)

SixNames ==
  InventoryFile(<<Char(<<"Short Sword">>, <<"Battle Armor", "Iron Helmet">>,
                       <<"Golden Crown">>, <<>>, <<"Absorb Essence">>, <<>>,
                       <<>>, <<"Great Axe">>)>>)

\* the artifacts a build can have left for a session
BuiltByScript(inv, items, spells) ==
  writeFileSync(NoArtifact,
                processSession(inv, loadAllItemData(items, spells), "ok").sessionItems,
                "ok")

\* the page after its first render: the mount effect has called
\* fetchAllSessionData (lines 420-422)
PageMounted ==
  /\ NothingShown
  /\ CalendarIdle(<<"1", "_", "1">>)
  /\ sessionId = "s1"
  /\ sessionData = FALSE /\ loading = TRUE /\ mapReady = FALSE
  /\ characterInventories = NullInventories
  /\ itemCache = {}
  /\ loads = One([sid |-> sessionId, stage |-> "fetching"])
  /\ runs = EmptyBag /\ hovers = EmptyBag
  /\ nLoads = 1 /\ seeded = {} /\ issued = NoneIssued

OneName  == InventoryFile(<<Char(<<"Short Sword">>, <<>>, <<>>, <<>>, <<>>,
                                 <<>>, <<>>, <<>>)>>)
TwoNames == InventoryFile(<<Char(<<>>, <<"Battle Armor">>, <<>>, <<>>, <<>>,
                                 <<>>, <<"Unknown Relic">>, <<>>)>>)

\* One viewing lifetime of a session: six referenced names (two batches)
\* with a precomputed cache built from the older or the current catalog, or
\* four referenced names and no precomputed cache
InitView ==
  /\ network = {"ok"}
  /\ itemsStore = ViewItems
  /\ spellsStore = ViewSpells
  /\ \E c \in
        { <<SixNames, BuiltByScript(SixNames, OldItems, ViewSpells)>>,
          <<SixNames, BuiltByScript(SixNames, ViewItems, ViewSpells)>>,
          <<InventoryFile(<<Char(<<"Short Sword">>, <<"Battle Armor">>,
                                 <<"Unknown Relic">>, <<>>, <<>>, <<>>,
                                 <<"Lost Map">>, <<>>)>>),
            NoArtifact>> } :
        /\ inventoryFile = [s \in Sessions |-> c[1]]
        /\ artifact = [s \in Sessions |-> c[2]]
  /\ BuildIdle
  /\ PageMounted

NextView ==
  \/ LoadFail
  \/ LoadInventories
  \/ LoadSeed
  \/ LoadAtOnce
  \/ MapReady
  \/ Hover
  \/ BatchLookupSettles
  \/ HoverLookupSettles
  \/ BatchSettled
  \/ DelayElapsed

SpecView == InitView /\ [][NextView]_vars

\* One viewing lifetime under the scheduling the runtime guarantees: a
\* continuation whose promise is fulfilled runs (line 553), and a timer that
\* was set fires (line 564). Nothing makes a fetch settle.
SpecViewFair ==
  SpecView /\ WF_vars(BatchSettled) /\ WF_vars(DelayElapsed)

\* One viewing lifetime with nothing hovered: the lookups are those of batch
\* resolution
NextBatches ==
  \/ LoadFail
  \/ LoadInventories
  \/ LoadSeed
  \/ LoadAtOnce
  \/ MapReady
  \/ BatchLookupSettles
  \/ BatchSettled
  \/ DelayElapsed

SpecBatches == InitView /\ [][NextBatches]_vars

\* Batch resolution where every fulfilled continuation runs (line 553),
\* every timer fires (line 564) and the fetches of single items settle (line
\* 495). The last conjunct is WF_vars(BatchLookupSettles) with its ENABLED
\* written out: a lookup can settle exactly when one is in flight.
SpecBatchesFair ==
  /\ SpecBatches
  /\ WF_vars(BatchSettled) /\ WF_vars(DelayElapsed)
  /\ \/ []<>(BatchInFlight(runs) = 0)
     \/ []<><<BatchLookupSettles>>_vars

\* The page navigating between two sessions, nothing hovered; the fetch of
\* the precomputed cache can fail; the second session has no artifact or
\* one built from the older catalog
InitNav ==
  /\ network = {"ok", "failed"}
  /\ itemsStore = ViewItems
  /\ spellsStore = ViewSpells
  /\ inventoryFile = [s \in Sessions |-> IF s = "s1" THEN OneName ELSE TwoNames]
  /\ \E b \in { NoArtifact, BuiltByScript(TwoNames, OldItems, ViewSpells) } :
        artifact = [s \in Sessions |-> IF s = "s1" THEN NoArtifact ELSE b]
  /\ BuildIdle
  /\ PageMounted

\* the sessions hold one batch each: no run awaits the delay between batches
NextNav ==
  \/ ChangeSession
  \/ LoadFail
  \/ LoadInventories
  \/ LoadSeed
  \/ LoadAtOnce
  \/ MapReady
  \/ BatchLookupSettles
  \/ BatchSettled

SpecNav == InitNav /\ [][NextNav]_vars

\* an artifact left by a build over earlier inventories of the second
\* session: n entries, none of them for a name the session references now
RECURSIVE StaleEntries(_)
StaleEntries(n) ==
  LET StaleNames ==
        <<"Amulet", "Bane Sword", "Cloak", "Dagger", "Elixir", "Flask",
          "Gloves", "Horn", "Idol", "Jade Shield", "Key">>
  IN IF n = 0 THEN <<>>
     ELSE ObjPut(StaleEntries(n - 1), StaleNames[n],
                 ToRecord(F(StaleNames[n], "old", Treasure)))

\* The page navigating to a session whose precomputed cache holds one entry
\* more than the floor, or as many entries as the floor; every request is
\* answered
InitFloor ==
  /\ network = {"ok"}
  /\ itemsStore = ViewItems
  /\ spellsStore = ViewSpells
  /\ inventoryFile = [s \in Sessions |-> IF s = "s1" THEN OneName ELSE TwoNames]
  /\ \E n \in {cacheFloor, cacheFloor + 1} :
        artifact = [s \in Sessions |->
                      IF s = "s1" THEN NoArtifact
                      ELSE writeFileSync(NoArtifact, StaleEntries(n), "ok")]
  /\ BuildIdle
  /\ PageMounted

SpecFloor == InitFloor /\ [][NextNav]_vars

-----------------------------------------------------------------------------
(* The category of one displayed item                                      *)

\* the values an attribute of the block 'this' has in a record
CachedRecords ==
  LET SpellValues     == {Undefined, "", "V"}
      BasePriceValues == {Undefined, "", "12"}
      TreasureValues  == {Undefined, "large", "small"}
      Blocks          == {Undefined, "<object>"}
      ThisBlocks ==
        {NotCached.attributeBlocks.this} \cup [found : {TRUE}, spell : SpellValues,
                       base_price : BasePriceValues, treasure : TreasureValues]
  IN {NotCached} \cup
     [found : {TRUE},
      attributeBlocks : [intact : Blocks, damaged : Blocks, unalerted : Blocks,
                         alerted : Blocks, this : ThisBlocks]]
GreatTreasureOfTheDwarves ==
  <<"G", "r", "e", "a", "t", " ", "T", "r", "e", "a", "s", "u", "r", "e", " ", "o", "f", " ", "t", "h", "e", " ", "D", "w", "a", "r", "v", "e", "s">>
DisplayedNames ==
  { GreatTreasureOfTheDwarves,
    <<"B", "r", "o", "a", "d", "s", "w", "o", "r", "d">>,
    <<"M", "y", "s", "t", "e", "r", "y", " ", "B", "o", "x">>,
    <<"S", "h", "o", "r", "t", " ", "S", "w", "o", "r", "d">>,
    <<"I", "r", "o", "n", " ", "H", "e", "l", "m", "e", "t">>,
    <<"G", "r", "e", "a", "t", " ", "T", "r", "e", "a", "s", "u", "r", "e">>,
    <<"G", "o", "l", "d", " ", "C", "o", "i", "n">>,
    <<"L", "o", "s", "t", " ", "M", "a", "p">>,
    <<"G", "o", "l", "d", "e", "n", " ", "H", "e", "l", "m", "e", "t">>,
    <<"E", "l", "f", " ", "B", "o", "w">>,
    <<"A", "r", "m", "o", "r", " ", "T", "y", "p", "e", " ", "I", "I">>,
    <<"T", "y", "p", "e", " ", "I", "V", " ", "G", "e", "m">>,
    <<"G", "r", "e", "a", "t", " ", "J", "e", "w", "e", "l">>,
    <<"D", "w", "a", "r", "f", " ", "G", "o", "l", "d">>,
    <<"E", "l", "f", " ", "G", "u", "a", "r", "d">>,
    <<"G", "r", "e", "a", "t", " ", "S", "w", "o", "r", "d">>,
    <<"G", "r", "e", "a", "t", " ", "B", "a", "t", "t", "l", "e", " ", "A", "x", "e">>,
    <<"G", "r", "e", "a", "t", " ", "A", "r", "m", "o", "r">> }

InitClassify ==
  /\ itemsStore = ViewItems /\ spellsStore = ViewSpells
  /\ inventoryFile = [s \in Sessions |-> OneName]
  /\ artifact = [s \in Sessions |-> NoArtifact]
  /\ BuildIdle
  /\ sessionId = "s1" /\ sessionData = TRUE /\ loading = FALSE
  /\ mapReady = FALSE /\ characterInventories = NullInventories
  /\ itemCache = {} /\ loads = EmptyBag /\ runs = EmptyBag
  /\ hovers = EmptyBag
  /\ nLoads = 1 /\ network = {"ok"} /\ seeded = {} /\ issued = NoneIssued
  /\ shown \in [name : DisplayedNames]
  /\ cached \in CachedRecords
  /\ category = NoCategory
  /\ large = <<>> /\ groups = <<>>
  /\ CalendarIdle(dayKeys[Len(dayKeys)])

NextClassify ==
  \/ Categorize
  \/ LargeTest
  \/ Group

SpecClassify == InitClassify /\ [][NextClassify]_vars

\* The calendar of a loaded session: the log is shown with its last day
\* selected (line 359); the user clicks days and the Auto/Stop button while
\* the timers of the auto-advance run
InitCalendar ==
  /\ itemsStore = ViewItems /\ spellsStore = ViewSpells
  /\ inventoryFile = [s \in Sessions |-> OneName]
  /\ artifact = [s \in Sessions |-> NoArtifact]
  /\ BuildIdle
  /\ sessionId = "s1" /\ sessionData = TRUE /\ loading = FALSE
  /\ mapReady = FALSE /\ characterInventories = NullInventories
  /\ itemCache = {} /\ loads = EmptyBag /\ runs = EmptyBag
  /\ hovers = EmptyBag
  /\ nLoads = 1 /\ network = {"ok"} /\ seeded = {} /\ issued = NoneIssued
  /\ shown = [name |-> <<>>] /\ cached = NotCached /\ category = NoCategory
  /\ large = <<>> /\ groups = <<>>
  /\ CalendarIdle(dayKeys[Len(dayKeys)])

NextCalendar ==
  \/ ToggleAuto
  \/ DayClick
  \/ TimerFires

SpecCalendar == InitCalendar /\ [][NextCalendar]_vars

-----------------------------------------------------------------------------
(* Claims about the builders                                               *)

\* the catalog of the current stores, and what a session's inventories
\* reference
Catalog       == loadAllItemData(itemsStore, spellsStore)
Referenced(s) == Range(extractAllItems(inventoryFile[s].chars))
Written(s)    == artifact[s].obj

\* C1: after every successful build (script or route) the artifact maps
\* exactly the referenced names found in the items or spells store, each to
\* its catalog record.
C1_ArtifactIsReferencedCatalogSubset ==
  lastOp.success =>
    /\ ObjKeys(Written(lastOp.session))
         = Referenced(lastOp.session) \cap ObjKeys(Catalog)
    /\ \A n \in ObjKeys(Written(lastOp.session)) :
         ObjGet(Written(lastOp.session), n) = ObjGet(Catalog, n)

\* C2: after every successful build the keys of the artifact and the missing
\* names partition the referenced-name set: their union is the set, they do
\* not overlap, and no missing name is listed twice.
C2_KeysAndMissingPartition ==
  lastOp.success =>
    /\ ObjKeys(Written(lastOp.session)) \cup Range(lastOp.missingItems)
         = Referenced(lastOp.session)
    /\ ObjKeys(Written(lastOp.session)) \cap Range(lastOp.missingItems) = {}
    /\ Cardinality(Range(lastOp.missingItems)) = Len(lastOp.missingItems)

\* C2 witness: a successful route build with a non-empty artifact and a
\* non-empty missing list
C2_Witness ==
  /\ lastOp.op = "post" /\ lastOp.success
  /\ Written(lastOp.session) # <<>>
  /\ lastOp.missingItems # <<>>

\* the last build handler's report to its caller
IsBuild(op)  == op.op \in {"script", "post"}
Status(op)   == IF op.op = "script" THEN results[Len(results)].status
                ELSE response.status
\* the statuses a build handler reports: the script by name, the route by code
Statuses(op) ==
  IF op.op = "script"
  THEN [ok |-> "success", error |-> "error", none |-> "no_inventories"]
  ELSE [ok |-> 200, error |-> 500, none |-> 404]
Counts(op) ==
  IF op.op = "script"
  THEN [itemsFound |-> results[Len(results)].itemsFound,
        totalItems |-> results[Len(results)].totalItems,
        missing |-> results[Len(results)].missingItems]
  ELSE [itemsFound |-> response.itemsFound,
        totalItems |-> response.totalItems,
        missing |-> Len(response.missingItems)]

\* C23: the names a build extracted from the inventories are exactly the
\* names of the item references in the eight buckets of all characters, each
\* once; references without a name, absent buckets and character entries
\* without items add nothing and do not fail the build.
C23_ExtractsDistinctNames ==
  LET chars == inventoryFile[lastOp.session].chars
      Buckets(c) ==
        {c.weapons, c.armor, c.treasures, c.great_treasures, c.spells,
         c.natives, c.other, c.unknown}
      \* the names of the references of all characters that have items
      NamedReferences ==
        { x \in UNION { Range(b) : b \in UNION { Buckets(chars[i]) :
                          i \in {j \in 1..Len(chars) : chars[j].hasItems} } } :
            x \notin {Undefined, NullRef, ""} }
  IN (IsBuild(lastOp) /\ lastOp.wrote # "none") =>
       /\ Range(lastOp.allItems) = NamedReferences
       /\ Cardinality(Range(lastOp.allItems)) = Len(lastOp.allItems)

\* a successful build over inventories with a name in several buckets and
\* characters, nameless references, absent buckets and a character entry
\* without items
C23_Witness ==
  /\ IsBuild(lastOp) /\ lastOp.success
  /\ inventoryFile[lastOp.session] = Messy
  /\ Len(lastOp.allItems) = 5

\* the record files a store holds, none for a missing store; their names;
\* and whether one of them is malformed
StoredFiles(store) ==
  IF store.exists
  THEN UNION { {f \in Range(d.files) : f.json} :
               d \in {x \in Range(store.dirs) : x.isDir} }
  ELSE {}
StoredNames(store) == { f.name : f \in StoredFiles(store) }
HasMalformed(store) == \E f \in StoredFiles(store) : ~f.ok
BothStoresMissing == ~itemsStore.exists /\ ~spellsStore.exists

\* C25: with the items store or the spells store missing, the script's
\* catalog load does not fail and the catalog holds the names stored in the
\* store that exists, none when both are missing; a build whose only failed
\* precondition could be the missing store succeeds when its write does,
\* and with both stores missing it writes an empty artifact and reports
\* every referenced name missing.
C25_MissingStoreIsEmpty ==
  ((~itemsStore.exists \/ ~spellsStore.exists)
     /\ ~HasMalformed(itemsStore) /\ ~HasMalformed(spellsStore)) =>
    /\ lastOp.op # "main_failed"
    /\ scriptPc = "loop" =>
         /\ ObjKeys(allItemData)
              = StoredNames(itemsStore) \cup StoredNames(spellsStore)
         /\ BothStoresMissing => allItemData = <<>>
    /\ (IsBuild(lastOp) /\ lastOp.wrote = "ok") =>
         /\ lastOp.success
         /\ BothStoresMissing =>
              /\ Written(lastOp.session) = <<>>
              /\ Range(lastOp.missingItems) = Referenced(lastOp.session)
              /\ Len(lastOp.missingItems) = Len(lastOp.allItems)

\* a successful build of a session that references names, with both stores
\* missing
C25_Witness ==
  /\ BothStoresMissing
  /\ IsBuild(lastOp) /\ lastOp.success
  /\ lastOp.missingItems # <<>>

\* the record files of both stores in the order the load pass scans them
ScanOrder == StoreFiles(itemsStore) \o StoreFiles(spellsStore)

\* C26: the catalog the script loaded has one entry per distinct stored
\* name, and maps each name to the record of the file scanned last among
\* the files of that name; a name stored in both stores has the record of
\* the spells store.
C26_LastScannedWins ==
  scriptPc = "loop" =>
    /\ Cardinality(ObjKeys(allItemData)) = Len(allItemData)
    /\ ObjKeys(allItemData) = {ScanOrder[i].name : i \in 1..Len(ScanOrder)}
    /\ \A i \in 1..Len(ScanOrder) :
          (\A j \in (i + 1)..Len(ScanOrder) :
              ScanOrder[j].name # ScanOrder[i].name)
          => ObjGet(allItemData, ScanOrder[i].name) = ToRecord(ScanOrder[i])
    /\ \A f \in StoredFiles(spellsStore) :
          f.name \in StoredNames(itemsStore)
          => \E g \in StoredFiles(spellsStore) :
                g.name = f.name /\ ObjGet(allItemData, f.name) = ToRecord(g)

\* the loaded catalog of stores that hold a name twice in the items store
\* and a name in both stores
C26_Witness ==
  /\ scriptPc = "loop"
  /\ itemsStore = ItemsDup /\ spellsStore = SpellsDup
  /\ ObjGet(allItemData, "Short Sword").id = "i7"
  /\ ObjGet(allItemData, "Fog").id = "sp2"
  /\ Len(allItemData) = 4

\* C29: with a malformed record file in the items store or the spells store
\* the script processes no session and produces no result, the route
\* answers 500 to a build of a session that has inventories, and no step
\* changes an artifact.
C29_MalformedRecordAborts ==
  [][(HasMalformed(itemsStore) \/ HasMalformed(spellsStore)) =>
       /\ artifact' = artifact
       /\ scriptPc' = "idle" /\ results' = <<>>
       /\ lastOp'.op # "script"
       /\ (lastOp'.op = "post" /\ inventoryFile[lastOp'.session].exists)
            => response'.status = 500 /\ lastOp'.wrote = "none"
    ]_vars

\* the route has answered 500 and the script has ended without processing
\* a session, with a malformed record file in a store; the artifact of an
\* earlier build is as it was
C29_Witness ==
  /\ HasMalformed(itemsStore) \/ HasMalformed(spellsStore)
  /\ lastOp.op = "main_failed" /\ results = <<>>
  /\ response.status = 500
  /\ artifact[response.session] = PriorArtifact

\* the session directories the bulk operation is to process: the entries of
\* the sessions directory that are directories and not hidden, in listing
\* order
Visible ==
  LET pos == {i \in 1..Len(sessionsDir) :
                sessionsDir[i].isDir /\ ~sessionsDir[i].dot}
      nth(k) == CHOOSE i \in pos : Cardinality({j \in pos : j <= i}) = k
  IN [k \in 1..Cardinality(pos) |-> sessionsDir[nth(k)].name]

\* C30: the results of the bulk operation are one per processed session, for
\* the non-hidden session directories in listing order, the sessions not yet
\* processed being the rest of that list; when the operation has ended every
\* one of them has its result, whatever the results of the sessions before;
\* and a session without inventories has 'no_inventories', one with
\* unparsable inventories 'error'.
C30_EverySessionOnce ==
  /\ Len(results) <= Len(Visible)
  /\ \A k \in 1..Len(results) :
        /\ results[k].sessionId = Visible[k]
        /\ results[k].status \in {"success", "error", "no_inventories"}
        /\ results[k].status = "no_inventories"
             <=> ~inventoryFile[Visible[k]].exists
        /\ ~inventoryFile[Visible[k]].ok => results[k].status = "error"
  /\ scriptPc = "loop" =>
        /\ sessionDirs # <<>>
        /\ sessionDirs = SubSeq(Visible, Len(results) + 1, Len(Visible))
  /\ (scriptPc = "idle" /\ results # <<>>) => Len(results) = Len(Visible)

\* the bulk operation has ended: the first session failed or had no
\* inventories, the second was built
C30_Witness ==
  /\ scriptPc = "idle" /\ Len(results) = 2
  /\ results[1].sessionId = "s1" /\ results[1].status # "success"
  /\ results[2].sessionId = "s2" /\ results[2].status = "success"

\* C32: after a successful build, the artifact of the session is the mapping
\* the script's builder writes for the stores and the inventories and the
\* mapping the route's builder writes for them, and the two builders report
\* the same matched and total counts and the same missing names.
C32_BuildersAgree ==
  (IsBuild(lastOp) /\ lastOp.success) =>
    LET inv   == inventoryFile[lastOp.session]
        byScript == processSession(inv, Catalog, "ok")
        byRoute  == POST(inv, itemsStore, spellsStore, "ok")
    IN /\ FromObj(Written(lastOp.session)) = FromObj(byScript.sessionItems)
       /\ FromObj(Written(lastOp.session)) = FromObj(byRoute.itemData)
       /\ byRoute.itemsFound = byScript.itemsFound
       /\ byRoute.totalItems = byScript.totalItems
       /\ Range(byRoute.missingItems) = Range(byScript.missingItems)

\* C31: a GET precomputed-items of a session changes no artifact and answers
\* with the content the last build of the session wrote, the file's object
\* whatever the catalog and the inventories are now, and with not-found when
\* no build wrote one.
C31_ReadReturnsLastBuilt ==
  [][got' # got =>
       /\ artifact' = artifact
       /\ IF artifact[got'.session].exists
          THEN /\ got'.status = 200
               /\ got'.items = artifact[got'.session].obj
          ELSE got'.status = 404
    ]_vars

\* C36: a build of session s changes at most the artifact of s: the catalog
\* stores, the inventories files and the artifacts of the other sessions are
\* unchanged by every step of the builders, and the artifact of s is changed
\* only by a build that found its inventories file, parsed it and parsed every
\* record of the catalog (so a build that ends with 'no inventories' or fails
\* before its write leaves the existing artifact as it was)
C36_BuildChangesOnlyItsArtifact ==
  [][/\ UNCHANGED <<itemsStore, spellsStore, inventoryFile>>
     /\ \A s \in Sessions :
          artifact'[s] # artifact[s] =>
            /\ IsBuild(lastOp') /\ lastOp'.session = s
            /\ inventoryFile[s].exists /\ inventoryFile[s].ok
            /\ ~HasMalformed(itemsStore) /\ ~HasMalformed(spellsStore)]_vars

\* a build of the first session ended before its write (no inventories, or
\* unparsable inventories or catalog record) over the artifact of an earlier
\* build, after a build of the other session wrote that session's artifact
C36_Witness ==
  /\ IsBuild(lastOp) /\ lastOp.session = "s1" /\ lastOp.wrote = "none"
  /\ artifact["s1"] = PriorArtifact
  /\ \/ artifact["s2"].exists
     \/ HasMalformed(itemsStore)

\* C14: every response a GET precomputed-items of a session can get while a
\* build of the session runs is the response for the artifact before the
\* build, for the artifact after it, or for no artifact.
C14_ReaderSeesWholeArtifact ==
  [][IsBuild(lastOp') =>
       reader' \subseteq {GET(artifact[lastOp'.session]),
                          GET(artifact'[lastOp'.session]),
                          GET(NoArtifact)}
    ]_vars

\* C15: a build whose write throws reports the failure status to its caller
\* and leaves the artifact the session had as it was.
C15_FailedWriteKeepsArtifact ==
  [][(IsBuild(lastOp') /\ lastOp'.wrote = "threw") =>
       /\ ~lastOp'.success
       /\ IF lastOp'.op = "script"
          THEN results'[Len(results')].status = "error"
          ELSE response'.status = 500
       /\ artifact[lastOp'.session].exists => artifact' = artifact
    ]_vars

\* C16: a successful build of a session that follows a successful build of
\* the session by the same builder leaves the artifact as it was, key order
\* included, and reports the same counts.
C16_RebuildIsIdentical ==
  [][\A s \in Sessions :
        (IsBuild(lastOp') /\ lastOp'.session = s /\ lastOp'.success
           /\ built[s].by = lastOp'.op)
        => /\ artifact'[s] = artifact[s]
           /\ built'[s].itemsFound = built[s].itemsFound
           /\ built'[s].totalItems = built[s].totalItems
           /\ built'[s].missingItems = built[s].missingItems
    ]_vars

\* the second of two builds in a row has written a non-empty artifact
C16_Witness ==
  \E s \in Sessions :
    /\ lastOp.session = s /\ lastOp.success
    /\ built[s].again
    /\ artifact[s].obj # <<>>

\* C17: after a successful build every entry of the artifact is a referenced
\* name with its current catalog record, whatever the artifact held before.
C17_FullRebuild ==
  (IsBuild(lastOp) /\ lastOp.success) =>
    \A n \in ObjKeys(Written(lastOp.session)) :
      /\ n \in Referenced(lastOp.session)
      /\ ObjHas(Catalog, n)
      /\ ObjGet(Written(lastOp.session), n) = ObjGet(Catalog, n)

\* a build has overwritten an artifact holding a name that is not referenced
\* any more, a name that left the catalog and an outdated record
C17_Witness ==
  /\ IsBuild(lastOp) /\ lastOp.success
  /\ built[lastOp.session].over = ObjKeys(PriorArtifact.obj)
  /\ Written(lastOp.session) # <<>>

\* C18: a successful build reports matched = number of keys of the written
\* artifact, total = number of referenced names and matched + missing =
\* total; for empty inventories the artifact is empty and the counts are 0.
C18_CountsAgree ==
  (IsBuild(lastOp) /\ lastOp.success) =>
    /\ Counts(lastOp).itemsFound = Len(Written(lastOp.session))
    /\ Counts(lastOp).totalItems = Cardinality(Referenced(lastOp.session))
    /\ Counts(lastOp).itemsFound + Counts(lastOp).missing
         = Counts(lastOp).totalItems
    /\ inventoryFile[lastOp.session].chars = <<>> =>
         /\ Written(lastOp.session) = <<>>
         /\ artifact[lastOp.session].exists
         /\ Counts(lastOp).totalItems = 0 /\ Counts(lastOp).missing = 0

\* a run of the script that built a session of empty inventories and then a
\* session with matched and missing names
C18_Witness ==
  /\ lastOp.op = "script" /\ lastOp.success
  /\ Len(results) = 2
  /\ results[1].status = "success" /\ results[1].totalItems = 0
  /\ results[2].itemsFound > 0 /\ results[2].missingItems > 0

\* C19: the status a build reports is the no-inventories status exactly when
\* the session has no inventories file, the success status exactly when the
\* artifact was written, and the error status in every other case.
C19_StatusTellsOutcome ==
  IsBuild(lastOp) =>
    /\ Status(lastOp) \in {Statuses(lastOp).none, Statuses(lastOp).ok,
                           Statuses(lastOp).error}
    /\ Status(lastOp) = Statuses(lastOp).none
         <=> ~inventoryFile[lastOp.session].exists
    /\ Status(lastOp) = Statuses(lastOp).ok <=> lastOp.wrote = "ok"
    /\ Status(lastOp) = Statuses(lastOp).error
         <=> (inventoryFile[lastOp.session].exists /\ lastOp.wrote # "ok")

\* the script reported an error for one session and no inventories for the
\* other, after the route had built the first
C19_Witness ==
  /\ lastOp.op = "script"
  /\ Len(results) = 2
  /\ results[1].status = "error"
  /\ results[2].status = "no_inventories"
  /\ response.status = 200

-----------------------------------------------------------------------------
(* Claims about the categories                                             *)

\* has the attribute (block) a value
Present(v) == v # Undefined

\* C20: the category of an item whose record is cached is armor if the
\* blocks intact and damaged are present; else weapon if unalerted and
\* alerted are present; else spell if this.spell is present; else, if
\* this.base_price is present, large_treasure when this.treasure is 'large'
\* and treasure otherwise. A record with the four blocks is armor.
C20_StructuralRulesInOrder ==
  (category # NoCategory /\ cached.found) =>
    LET b == cached.attributeBlocks
    IN /\ (Present(b.intact) /\ Present(b.damaged)) => category = "armor"
       /\ (~(Present(b.intact) /\ Present(b.damaged))
             /\ Present(b.unalerted) /\ Present(b.alerted))
            => category = "weapon"
       /\ (~(Present(b.intact) /\ Present(b.damaged))
             /\ ~(Present(b.unalerted) /\ Present(b.alerted))
             /\ Present(Opt(b.this, "spell")))
            => category = "spell"
       /\ (~(Present(b.intact) /\ Present(b.damaged))
             /\ ~(Present(b.unalerted) /\ Present(b.alerted))
             /\ ~Present(Opt(b.this, "spell"))
             /\ Present(Opt(b.this, "base_price")))
            => category = IF Opt(b.this, "treasure") = "large"
                          THEN "large_treasure" ELSE "treasure"

\* the record shows none of the attributes the structural rules look for
NoRuleApplies(c) ==
  LET b == c.attributeBlocks
  IN /\ ~(Present(b.intact) /\ Present(b.damaged))
     /\ ~(Present(b.unalerted) /\ Present(b.alerted))
     /\ ~Present(Opt(b.this, "spell"))
     /\ ~Present(Opt(b.this, "base_price"))

\* C21: the category is one of the eight categories; for an item without a
\* cached record, or whose record shows none of the attributes of the
\* structural rules, it is decided by the keywords the lower-cased name
\* contains, in the order weapon, armor, spell, great treasure, treasure,
\* native, and is other when the name contains none. 'Broadsword' is a
\* weapon, 'Great Treasure of the Dwarves' a great treasure, 'Mystery Box'
\* other.
C21_NameHeuristicInOrder ==
  category # NoCategory =>
    /\ category \in {"weapon", "armor", "spell", "treasure", "large_treasure",
                     "great_treasure", "native", "other"}
    /\ (~cached.found \/ NoRuleApplies(cached)) =>
         LET n == toLowerCase(shown.name)
             hit(ws) == \E w \in ws : includes(n, w)
             great == includes(n, greatWord) /\ hit(greatTreasureWords)
         IN /\ hit(weaponWords) => category = "weapon"
            /\ (~hit(weaponWords) /\ hit(armorWords)) => category = "armor"
            /\ (~hit(weaponWords) /\ ~hit(armorWords) /\ hit(spellWords))
                 => category = "spell"
            /\ (~hit(weaponWords) /\ ~hit(armorWords) /\ ~hit(spellWords)
                  /\ great) => category = "great_treasure"
            /\ (~hit(weaponWords) /\ ~hit(armorWords) /\ ~hit(spellWords)
                  /\ ~great /\ hit(treasureWords)) => category = "treasure"
            /\ (~hit(weaponWords) /\ ~hit(armorWords) /\ ~hit(spellWords)
                  /\ ~great /\ ~hit(treasureWords) /\ hit(nativeWords))
                 => category = "native"
            /\ (~hit(weaponWords) /\ ~hit(armorWords) /\ ~hit(spellWords)
                  /\ ~great /\ ~hit(treasureWords) /\ ~hit(nativeWords))
                 => category = "other"
            /\ shown.name = <<"B", "r", "o", "a", "d", "s", "w", "o", "r", "d">>
                 => category = "weapon"
            /\ shown.name = GreatTreasureOfTheDwarves
                 => category = "great_treasure"
            /\ shown.name = <<"M", "y", "s", "t", "e", "r", "y", " ", "B", "o", "x">>
                 => category = "other"

\* an item with a cached record that shows none of the attributes of the
\* rules, categorized as a great treasure by its name
C21_Witness ==
  /\ category = "great_treasure"
  /\ shown.name = GreatTreasureOfTheDwarves
  /\ cached.found /\ cached.attributeBlocks.this.found
  /\ NoRuleApplies(cached)

\* C37: for an item categorized by its name, great_treasure is the category
\* only of names that contain 'great' and 'treasure' and no weapon, armor or
\* spell keyword; a name containing 'sword' or 'axe' is a weapon and a name
\* containing 'armor' and no weapon keyword is armor, also when the name
\* contains 'great'
C37_GreatTreasureNeedsTreasure ==
  (category # NoCategory /\ (~cached.found \/ NoRuleApplies(cached))) =>
    LET n == toLowerCase(shown.name)
        hit(ws) == \E w \in ws : includes(n, w)
    IN /\ category = "great_treasure" =>
            /\ includes(n, greatWord)
            /\ includes(n, <<"t", "r", "e", "a", "s", "u", "r", "e">>)
            /\ ~hit(weaponWords) /\ ~hit(armorWords) /\ ~hit(spellWords)
       /\ (includes(n, <<"s", "w", "o", "r", "d">>)
             \/ includes(n, <<"a", "x", "e">>)) => category = "weapon"
       /\ (includes(n, <<"a", "r", "m", "o", "r">>) /\ ~hit(weaponWords))
            => category = "armor"

\* 'Great Armor', which has no cached record, is categorized armor
C37_Witness ==
  /\ ~cached.found /\ category = "armor"
  /\ shown.name = <<"G", "r", "e", "a", "t", " ", "A", "r", "m", "o", "r">>

\* C38: every displayed item is kept by the filter of exactly one of the
\* display groups equipment, treasure, large treasure, great treasure and
\* spell, whatever its category and whatever isLargeTreasure says of it
C38_ExactlyOneGroup ==
  groups # <<>> => Cardinality(groups[1]) = 1

\* C22: isLargeTreasure(item) is true exactly when a record is cached for
\* the item and its this.treasure is 'large', whatever the category; it is
\* true of every item categorized large_treasure.
C22_LargeIffTreasureLarge ==
  large # <<>> =>
    /\ large[1] = TRUE
         <=> (cached.found /\ cached.attributeBlocks.this.found
                /\ cached.attributeBlocks.this.treasure = "large")
    /\ category = "large_treasure" => large[1] = TRUE

\* an item isLargeTreasure is true of and getItemCategory calls armor
C22_Witness == large = <<TRUE>> /\ category = "armor"

-----------------------------------------------------------------------------
(* Claims about the runtime item cache                                     *)

\* the lookups run r issued for its current batch
CurrentLookups(r) == batchLookups(r.items, r.i, r.have)

\* C3: once the record of a name that the precomputed cache did not seed and
\* the catalog holds is stored in the runtime cache, no step issues a lookup
\* for that name again, whether a hover or a batch issues it.
C3_NoLookupOnceStored ==
  [][\A n \in CacheKeys(itemCache) :
        (~CacheHas(seeded, n) /\ ObjHas(Catalog, n)) => n \notin issued'.names
    ]_vars

\* C4: a key of itemCache stays a key of itemCache in every later state.
C4_NeverEvicted ==
  [][CacheKeys(itemCache) \subseteq CacheKeys(itemCache')]_vars

\* C5: a step that applies the seed leaves in itemCache every entry of the
\* precomputed cache, and every earlier entry whose name the precomputed cache
\* does not hold.
C5_SeedMerges ==
  [][\A l \in BagToSet(loads) :
        LET pre == GET(artifact[l.sid])
        IN (pre.status = 200
              /\ (seedAfterRender(l, "ok") \/ seedAtOnce(l, "ok")))
           => /\ FromObj(pre.items) \subseteq itemCache'
              /\ \A e \in itemCache :
                    ~ObjHas(pre.items, e.k) => e \in itemCache'
    ]_vars

\* C6: a name the precomputed cache seeded is served from itemCache with the
\* seeded record, and no lookup is issued for it.
C6_SeededServedAsSeeded ==
  \A e \in seeded :
    /\ e.k \notin issued.names
    /\ CacheHas(itemCache, e.k) /\ CacheGet(itemCache, e.k) = e.v

\* C7: the lookups a batch issues are for names that are not keys of
\* itemCache when they are issued.
C7_BatchSkipsCached ==
  issued.by = "batch" => issued.names \cap CacheKeys(itemCache) = {}

\* C8: at most batchSize lookups issued by batch resolution are in flight.
C8_AtMostBatchSizeInFlight == BatchInFlight(runs) <= batchSize

\* C9: no two lookups issued by batch resolution that are in flight at the
\* same time are for the same name.
C9_InFlightNamesDistinct ==
  \A r \in BagToSet(runs) :
    /\ r.pending # {} => CopiesIn(r, runs) = 1
    /\ \A q \in BagToSet(runs) \ {r} : r.pending \cap q.pending = {}

\* C27: batch resolution issues lookups only in a state with the inventories
\* loaded, the map ready and at most cacheFloor entries in itemCache; and no
\* batch issues lookups for the names of the inventories of the session on
\* view when that session has a precomputed cache of more than cacheFloor
\* entries.
C27_BatchOnlyUnderFloor ==
  (issued.by = "batch" /\ issued.names # {}) =>
    /\ characterInventories.loaded /\ mapReady
    /\ Cardinality(itemCache) <= cacheFloor
    /\ LET Precomputed == GET(artifact[sessionId])
       IN ~(/\ characterInventories
                 = inventoriesResponse(inventoryFile[sessionId])
            /\ Precomputed.status = 200
            /\ Len(Precomputed.items) > cacheFloor)

\* C28: a run of batch resolution is at a batch that starts at a multiple of
\* batchSize within its list and its lookups in flight are for names of that
\* slice of the list; it waits for the delay only with no lookup in flight
\* and another batch to come; and it moves to the next batch, and issues
\* that batch's lookups, only from the delay after the batch before, all of
\* whose lookups have settled.
C28_BatchesInOrder ==
  [][/\ \A r \in BagToSet(runs) :
          /\ r.i % batchSize = 0 /\ r.i < Len(r.items)
          /\ r.pending \subseteq
               {r.items[j] : j \in {k \in 1..Len(r.items) :
                                      r.i < k /\ k <= r.i + batchSize}}
          /\ r.phase = "delay" =>
               r.pending = {} /\ r.i + batchSize < Len(r.items)
     \* the runs the step added or moved
     /\ \A q \in {x \in BagToSet(runs') : CopiesIn(x, runs') > CopiesIn(x, runs)} :
          /\ (q.i > 0 /\ q.phase = "batch"
                /\ ~\E r \in BagToSet(runs) :
                       /\ r.items = q.items /\ r.have = q.have
                       /\ r.i = q.i /\ r.phase = "batch") =>
               /\ issued'.by = "batch"
               /\ issued'.names = q.pending
               /\ \E r \in BagToSet(runs) :
                     /\ r.items = q.items /\ r.have = q.have
                     /\ r.i + batchSize = q.i
                     /\ r.phase = "delay" /\ r.pending = {}
          /\ q.phase = "delay" =>
               \E r \in BagToSet(runs) :
                 /\ r.items = q.items /\ r.have = q.have /\ r.i = q.i
                 /\ r.phase = "batch" /\ r.pending = {}
    ]_vars

\* a run over six names has issued the lookup of its second batch
C28_Witness ==
  /\ issued.by = "batch"
  /\ \E r \in BagToSet(runs) :
        /\ Len(r.items) = batchSize + 1 /\ r.i = batchSize
        /\ r.pending = issued.names /\ r.pending # {}

\* C24: a load whose precomputed-items request fails or is answered
\* not-found ends with the session data and the inventories set, loading
\* false and itemCache as it was (on the first load: the inventories of the
\* session, and itemCache empty); and the step
\* after which the inventories are loaded and the map is ready, with at most
\* cacheFloor entries cached, starts batch resolution for the referenced
\* names that are not cached.
C24_AbsentArtifactFallsBack ==
  [][/\ \A l \in BagToSet(loads) : \A net \in network :
          ((net = "failed" \/ GET(artifact[l.sid]).status = 404)
             /\ (seedAfterRender(l, net) \/ seedAtOnce(l, net)))
          => /\ sessionData' /\ ~loading'
             /\ characterInventories'.loaded
             /\ itemCache' = itemCache
             /\ nLoads = 1 =>
                  /\ itemCache' = {}
                  /\ characterInventories'
                       = inventoriesResponse(inventoryFile[l.sid])
     /\ LET names == extractAllItems(characterInventories'.chars)
        IN (/\ characterInventories'.loaded /\ mapReady'
            /\ ~(characterInventories.loaded /\ mapReady)
            /\ Cardinality(itemCache') <= cacheFloor
            /\ names # <<>>)
           => /\ issued'.by = "batch"
              /\ issued'.names = Range(names) \ CacheKeys(itemCache')
              /\ \E r \in BagToSet(runs') :
                    r.items = names /\ r.i = 0 /\ r.pending = issued'.names
    ]_vars

\* the first load of a session without artifact has ended, nothing was
\* seeded, the map is ready and batch resolution has issued the lookups of
\* the referenced names
C24_Witness ==
  /\ nLoads = 1 /\ loads = EmptyBag /\ ~loading /\ sessionData /\ mapReady
  /\ ~artifact[sessionId].exists
  /\ seeded = {} /\ itemCache = {}
  /\ issued.by = "batch"
  /\ issued.names = Referenced(sessionId) /\ issued.names # {}

\* C33: with every lookup settling, batch resolution comes to an end: from
\* some state on no call of fetchAllItemData is in flight, so no lookup of
\* batch resolution is in flight and none is issued any more, although every
\* successful lookup re-runs the effect.
C33_BatchResolutionTerminates == <>[](runs = EmptyBag)

\* batch resolution has ended over six referenced names, with a record in
\* itemCache that a lookup stored
C33_Witness ==
  /\ runs = EmptyBag /\ mapReady /\ loads = EmptyBag
  /\ Cardinality(Referenced(sessionId)) > batchSize
  /\ \E e \in itemCache : e \notin seeded

\* C11: a call of fetchAllItemData that is in its first batch and has
\* lookups to issue in its second batch eventually issues them, whether or
\* not the lookups of its first batch settle.
C11_NextBatchIssued ==
  (\E r \in BagToSet(runs) :
      r.i = 0 /\ batchLookups(r.items, batchSize, r.have) # {})
    ~> (\E r \in BagToSet(runs) : r.i >= batchSize /\ CurrentLookups(r) # {})

\* C12: a call of fetchAllItemData in flight stays in flight, at the same or
\* a later position of its loop, through every step, lookup failures
\* included, until it has issued its last batch and that batch has settled:
\* no failure ends the loop early.
C12_FailureNeverAborts ==
  [][LET \* the run had issued every batch and its last batch has settled
         \* (line 551: the loop condition fails)
         Finished(r) ==
           /\ r.phase = "batch" /\ r.pending = {}
           /\ ~(r.i + batchSize < Len(r.items))
         \* q is a later position of the call r of fetchAllItemData
         Continues(r, q) ==
           /\ q.items = r.items /\ q.have = r.have
           /\ \/ q.i > r.i
              \/ q.i = r.i /\ q.phase = r.phase
                   /\ q.pending \subseteq r.pending
              \/ q.i = r.i /\ r.phase = "batch" /\ r.pending = {}
                   /\ q.phase = "delay"
     IN \A r \in BagToSet(runs) :
          \/ \E q \in BagToSet(runs') : Continues(r, q)
          \/ Finished(r)
    ]_vars

\* a run has issued its second batch although a name its first batch looked
\* up is still no key of itemCache (the lookup failed), nothing was seeded
\* over it
C12_Witness ==
  \E r \in BagToSet(runs) :
    /\ r.i >= batchSize /\ r.pending # {}
    /\ \E n \in batchLookups(r.items, 0, r.have) :
          ~CacheHas(itemCache, n) /\ BagCardinality(runs) = 1

\* C13: itemCache holds no key for a failed lookup: every entry is an entry
\* the precomputed cache seeded or the catalog record of its name, so a name
\* whose lookup failed is no key and fetchItem issues a lookup for it again.
C13_NoNegativeCaching ==
  \A e \in itemCache :
    \/ e \in seeded
    \/ LET res == lookupItem(itemsStore, spellsStore, e.k)
       IN res.ok /\ e.v = res.item

\* a name the current batch of a run looked up without success (nothing
\* seeded, no key of itemCache, no longer pending) is looked up again by a
\* hover
C13_Witness ==
  /\ issued.by = "hover" /\ seeded = {}
  /\ \E r \in BagToSet(runs) :
        \E n \in CurrentLookups(r) \ r.pending :
          /\ issued.names = {n}
          /\ ~CacheHas(itemCache, n)
          /\ n \in BagToSet(hovers)

\* C34: a step that is no step of a load (a lookup completing, above all)
\* loses no record of itemCache: every key stays, with its record or with
\* the record a lookup of that key returned, and at most one key is added;
\* so the records of lookups that completed in any order are all there.
C34_NoLostUpdate ==
  [][loads' = loads =>
       /\ \A e \in itemCache :
            /\ CacheHas(itemCache', e.k)
            /\ \/ e \in itemCache'
               \/ CacheGet(itemCache', e.k)
                    = lookupItem(itemsStore, spellsStore, e.k).item
       /\ Cardinality(CacheKeys(itemCache') \ CacheKeys(itemCache)) <= 1
    ]_vars

\* two lookups of one batch, in flight together, have both completed and
\* both records are in itemCache, neither of them seeded
C34_Witness ==
  \E r \in BagToSet(runs) : \E a, b \in CurrentLookups(r) \ r.pending :
    /\ a # b
    /\ ~CacheHas(seeded, a) /\ ~CacheHas(seeded, b)
    /\ CacheHas(itemCache, a) /\ CacheHas(itemCache, b)
    /\ CacheGet(itemCache, a) = lookupItem(itemsStore, spellsStore, a).item
    /\ CacheGet(itemCache, b) = lookupItem(itemsStore, spellsStore, b).item

\* C35: while loading is true no lookup is in flight and none is issued; on
\* the first load of the page a lookup, of a batch or of a hover, is only
\* issued once fetchAllSessionData has ended, that is after the seed.
C35_SeedBeforeLookups ==
  /\ loading => (runs = EmptyBag /\ hovers = EmptyBag /\ issued.names = {})
  /\ (nLoads = 1 /\ issued.names # {}) => (~loading /\ loads = EmptyBag)

\* a batch lookup issued on the first load, over a seeded itemCache that
\* lacks a referenced name
C35_Witness ==
  /\ nLoads = 1 /\ issued.by = "batch" /\ issued.names # {}
  /\ seeded # {} /\ seeded \subseteq itemCache

\* C10: a lookup of a batch that completes with the record of its name has the
\* record stored in itemCache by that step, whatever became of the other
\* lookups of the batch.
C10_SuccessIsStored ==
  [][\A r \in BagToSet(runs) : \A n \in r.pending :
        LET res == lookupItem(itemsStore, spellsStore, n)
        IN (res.ok /\ fetchItemSettles(r, n, "response"))
           => CacheHas(itemCache', n) /\ CacheGet(itemCache', n) = res.item
    ]_vars

\* a batch with one lookup failed or still in flight, its record not stored,
\* and another lookup of the same batch completed and stored
C10_Witness ==
  \E r \in BagToSet(runs) : \E a, b \in CurrentLookups(r) :
    /\ a # b
    /\ ~CacheHas(itemCache, b)
    /\ a \notin r.pending
    /\ lookupItem(itemsStore, spellsStore, a).ok
    /\ CacheHas(itemCache, a)
    /\ CacheGet(itemCache, a) = lookupItem(itemsStore, spellsStore, a).item

-----------------------------------------------------------------------------
(* Claims about the calendar                                               *)

\* C39: while auto-advance is on, a timer that fires moves the selected day
\* to the next day in the order of (month, day), skipping and repeating no
\* day, and auto-advance is off once the last day is selected
C39_AutoAdvanceStepsInOrder ==
  [][(lastEvent'.kind = "timer" /\ isAutoAdvancing) =>
       LET currentIndex == CHOOSE i \in 1..Len(dayKeys) :
                             dayKeys[i] = selectedDay
       IN /\ currentIndex < Len(dayKeys)
          /\ selectedDay' = dayKeys[currentIndex + 1]
          /\ selectedDay' = dayKeys[Len(dayKeys)] => ~isAutoAdvancing']_vars

\* C40: at most one auto-advance timer is pending, and a timer scheduled
\* before the user clicked a day or Stop does not change the selected day
\* when it fires
C40_NoStaleTimerOverrides ==
  [][/\ Cardinality(timers') <= 1
     /\ (lastEvent'.kind = "timer" /\ lastEvent'.stale)
          => selectedDay' = selectedDay]_vars

====
